---- MODULE Spec2Model ----
(***************************************************************************)
(* Model of the pipeline orchestrator of ai-bio-llm: main.py (run_pipeline *)
(* and the batch scheduler in main), the agents' bounded-retry model call  *)
(* and the agents' run_for_problem as far as they touch the checkpoint     *)
(* files of a problem directory.                                           *)
(***************************************************************************)
EXTENDS Integers, Sequences, FiniteSets, TLC

\* ------------------------------------------------------------------ bounds
NumProblems == 3        \* problem directories in the model
MaxRuns == 2            \* invocations of main on the same directories
MaxPreexisting == 2     \* checkpoint files already on disk before the first run
MaxRefs == 2            \* references in the db_list handed to resolve
MaxOnly == 2            \* items given to --only
MaxCpus == 3            \* os.cpu_count()
MaxLines == 4           \* lines of a data file after its header
MaxCap == 3             \* max_sample_rows
MaxPrints == 2          \* lines one thread writes
MaxScanFiles == 3       \* files on disk around the data directory
MaxSubProblems == 2     \* sub-problems of a decomposition
MaxJobs == 2            \* jobs handed to the threads
MaxBlocks == 1          \* suppress_stdout blocks one job enters

\* ------------------------------------------------------- program constants
MAX_RETRIES == 5
RETRY_BACKOFF == 2

Problems == 1..NumProblems

\* The directories that hold problem files: Path(file_path).parent of some
\* discovered file (main.py 187).
Dirs == Problems

\* ----------------------------------------------------------------- steps
StepOrder ==
  <<"Brain", "Search", "DataAnalysis", "Blue", "Red", "BlueX", "RedReview", "Answer">>

Steps == {StepOrder[i] : i \in 1..Len(StepOrder)}

StepIndex(s) == CHOOSE i \in 1..Len(StepOrder) : StepOrder[i] = s

\* The steps that accept a legacy file name (main.py 240, 378, 410, 441, 474)
LegacySteps == {"Search", "Blue", "Red", "BlueX", "RedReview"}

StepDir(s) ==
  CASE s = "Brain"        -> "01_brain"
    [] s = "Search"       -> "02_search"
    [] s = "DataAnalysis" -> "03_data_analysis"
    [] s = "Blue"         -> "04_blue_draft"
    [] s = "Red"          -> "05_red_critique"
    [] s = "BlueX"        -> "06_bluex_revision"
    [] s = "RedReview"    -> "07_red_review"
    [] s = "Answer"       -> "08_answer"

Primary(s) ==
  CASE s = "Brain"        -> "01_brain/brain_decomposition.json"
    [] s = "DataAnalysis" -> "03_data_analysis/data_analysis_results.txt"
    [] OTHER              -> StepDir(s) \o "/output.txt"

Legacy(s) ==
  CASE s = "Search"    -> "02_search/search_results.txt"
    [] s = "Blue"      -> "04_blue_draft/blue_results.txt"
    [] s = "Red"       -> "05_red_critique/red_results.txt"
    [] s = "BlueX"     -> "06_bluex_revision/blue_results.txt"
    [] s = "RedReview" -> "07_red_review/red_results.txt"

SysPrompt(s) == StepDir(s) \o "/system_prompt.md"
UserPrompt(s) == StepDir(s) \o "/user_prompt.txt"

\* ------------------------------------------------------------------ names
\* A file name or command-line item is a sequence of tokens: "problem_", a
\* digit, an extension, a separator, a directory name.
Digits == <<"1", "2", "3", "4", "5", "6", "7", "8", "9">>

\* the string a token sequence spells
RECURSIVE Render(_)
Render(t) == IF t = <<>> THEN "" ELSE Head(t) \o Render(Tail(t))

\* str.lower(), token by token
Lower(t) ==
  [i \in 1..Len(t) |->
     CASE t[i] = "PROBLEM_" -> "problem_"
       [] t[i] = ".TXT"     -> ".txt"
       [] t[i] = "Q1"       -> "q1"
       [] t[i] = "Q2"       -> "q2"
       [] t[i] = "Q3"       -> "q3"
       [] t[i] = "Q4"       -> "q4"
       [] t[i] = "Q5"       -> "q5"
       [] t[i] = "Genelist" -> "genelist"
       [] t[i] = "Problem"  -> "problem"
       [] t[i] = "Answer"   -> "answer"
       [] OTHER             -> t[i]]

\* the stems of the problem files glob finds: problem_<n>, and problem_ alone
\* (the * of problem_*.txt matches the empty string)
NumberedStem(n) == <<"problem_", Digits[n]>>

BareStem == <<"problem_">>

Stems == {NumberedStem(n) : n \in Problems} \cup {BareStem}

\* an answer id that would keep the prefix
AnswerIdWhole(problem_id) == problem_id

\* answer_id: problem_id without a leading "problem_" (compared in lower
\* case), problem_id itself when nothing is left (main.py 190-194, 524-528)
AnswerId(problem_id) ==
  LET stripped == IF problem_id # <<>> /\ Lower(problem_id)[1] = "problem_"
                    THEN Tail(problem_id) ELSE problem_id
  IN  IF stripped = <<>> THEN problem_id ELSE stripped

\* answer_<answer_id>.txt at the root of the problem directory
AnswerName(problem_id) == "answer_" \o Render(AnswerId(problem_id)) \o ".txt"

\* the raw question, <problem_id>.txt
ProblemName(problem_id) == Render(problem_id) \o ".txt"

\* what DataAnalystAgent.run_for_problem saves, and where main moves it
ProducedMd == "03_data_analysis/brain_decomposition_analysis.md"
ProducedJson == "03_data_analysis/brain_decomposition_analysis.json"
MovedMd == "03_data_analysis/data_analysis.md"
MovedJson == "03_data_analysis/data_analysis.json"

PromptSteps == Steps \ {"Brain", "DataAnalysis"}

\* the checkpoint files of the steps
StepFiles == {Primary(s) : s \in Steps} \cup {Legacy(s) : s \in LegacySteps}

\* the checkpoint files of the problem with this id
CompletionFiles(problem_id) == StepFiles \cup {AnswerName(problem_id)}

Files ==
  StepFiles \cup {AnswerName(st) : st \in Stems} \cup {ProblemName(st) : st \in Stems}
    \cup {ProducedMd, ProducedJson, MovedMd, MovedJson}
    \cup {SysPrompt(s) : s \in PromptSteps} \cup {UserPrompt(s) : s \in PromptSteps}

\* File contents: "absent" is no file; "empty" a zero-length file; "old" text
\* that was on disk before the first run; the others are what the run writes.
Contents ==
  {"absent", "empty", "old", "json", "text", "prompt", "dummy", "status",
   "summary", "errtext"}

\* a completion test that would also look at the file's size
ExistsNonEmpty(d, f) == d[f] \notin {"absent", "empty"}

\* Path.exists()
Exists(d, f) == d[f] # "absent"

WriteFile(d, f, c) == [d EXCEPT ![f] = c]

\* --------------------------------------------------------- the model call
\* What one request to the remote model can produce: "ok" a text content,
\* "badjson" a text content that is not the JSON Brain needs, "none" a
\* response whose message.content is None, "err1"/"err2" two exceptions.
RespKinds == {"ok", "badjson", "none", "err1", "err2"}

IsException(r) == r \in {"err1", "err2"}

\* wait = RETRY_BACKOFF ** (attempt - 1)
RECURSIVE Pow(_, _)
Pow(b, e) == IF e = 0 THEN 1 ELSE b * Pow(b, e - 1)

\* a backoff that would start at RETRY_BACKOFF instead of 1
BackoffFromBase(attempt) == Pow(RETRY_BACKOFF, attempt)

Backoff(attempt) == Pow(RETRY_BACKOFF, attempt - 1)

\* The for-loop of _call_llm, from attempt on; resps[i] is what request i gets.
RECURSIVE CallLoop(_, _, _, _)
CallLoop(resps, attempt, waits, last_err) ==
  IF attempt > MAX_RETRIES
    THEN [outcome |-> "raise", value |-> last_err,
          attempts |-> attempt - 1, waits |-> waits]
    ELSE IF IsException(resps[attempt])
      THEN CallLoop(resps, attempt + 1, Append(waits, Backoff(attempt)), resps[attempt])
      ELSE [outcome |-> "return", value |-> resps[attempt],
            attempts |-> attempt, waits |-> waits]

\* a call that would go through the loop a second time after it has raised
CallLLMAgain(resps) ==
  LET r == CallLoop(resps, 1, <<>>, "noerr")
  IN  IF r.outcome = "raise"
        THEN [CallLoop(resps, 1, r.waits, r.value) EXCEPT !.attempts = @ + r.attempts]
        ELSE r

CallLLM(resps) == CallLoop(resps, 1, <<>>, "noerr")

\* before the call
NotCalled == [outcome |-> "pending", value |-> "noerr", attempts |-> 0, waits |-> <<>>]

VARIABLES
  llm_resps,     \* the responses the remote model gives to requests 1..MAX_RETRIES
  llm_result,    \* the result of _call_llm, NotCalled before the call
  brain_result,  \* the result of analyze_question, NotAnalyzed before the call
  fs,            \* [Dirs -> [Files -> Contents]]: the problem directories
  home,          \* [Problems -> Dirs]: the directory that holds the problem file
  stem,          \* [Problems -> Stems]: the problem file's name without .txt
  only,          \* args.only: "all" when not given, else a sequence of items
  dummy,         \* content of <input_dir>/dummy_data_analysis.txt
  env,           \* [Problems -> how the remote model behaves for that problem]
  jobs,          \* txt_files: the selected problems, in discovery order
  cpu_count,     \* os.cpu_count() or 1
  max_workers,   \* size of the worker pool (0: no pool)
  mainpc,        \* position of main: "init", "inline", "pool", "exit"
  failures,      \* main's failure counter
  collected,     \* futures main has taken from as_completed
  reported,      \* the count printed by "Completed with failures", -1 if not printed
  pc,            \* [Problems -> position of run_pipeline]
  ref,           \* [Problems -> the result-path locals of run_pipeline]
  outcome,       \* [Problems -> how run_pipeline ended]
  escaped,       \* [Problems -> BOOLEAN]: an exception left run_pipeline
  sys_stdout,    \* the process-wide sys.stdout: "router" or the StringIO of a job
  old_stdout,    \* [Problems -> old_stdout of _execute_code_safely, "unset" outside it]
  exec_outcome,  \* [Problems -> how the data analysis that is executing code will end]
  run,           \* number of the current invocation of main
  \* history variables
  started,       \* [Problems -> times run_pipeline was entered in this invocation]
  invoked,       \* [Problems -> steps whose agent was invoked, in order]
  requests,      \* [Problems -> model requests made in this run]
  created,       \* [Problems -> completion artifacts created in this run, in order]
  touched,       \* [Problems -> <<directory, file>> the job wrote or took as a checkpoint]
  handed,        \* [Problems -> <<step, path>> of every upstream path handed to an agent]
  handedMissing, \* [Problems -> <<step, path>> handed to an agent while absent]
  failedAt,      \* [Problems -> the step at which this run failed, or "none"]
  how,           \* [Problems -> [Steps -> how the block of that step went]]
  fs0,           \* [Problems -> the directory as it was when main started]
  prevOutcome,   \* [Problems -> outcome of the previous invocation]
  prevFailedAt,  \* [Problems -> failedAt of the previous invocation]
  \* FileResolver
  disk,          \* the files of Universe that lie under data_dir
  file_index,    \* self._file_index
  db_list,       \* the argument of resolve
  resolved,      \* what the last call of resolve returned
  scanned,       \* history: the files on disk when the index was last built
  res_op,        \* history: the last operation, "none" before construction
  \* DataLoader
  format_type,   \* SUPPORTED_FORMATS[ext]: "csv" or "text"
  first_line,    \* the file's first line: "delimited" (it holds a comma or a tab) or "plain"
  csv_lines,     \* the lines of the file after its first line: "row" or "blank"
  max_sample_rows, \* self.max_sample_rows
  metadata,      \* the metadata load_file returned, NotLoaded before the call
  \* output of concurrent threads
  out_pc,        \* [OutThreads -> position of the thread in status() or print()]
  out_count,     \* [OutThreads -> lines the thread has written]
  status_lock,   \* holder of _status_lock, 0 when free
  stdout_lock,   \* holder of _stdout_lock, 0 when free
  suppress,      \* [OutThreads -> _suppress_stdout_flag in the thread's context]
  stderr_text,   \* what reached sys.stderr: <<thread, "text" or "end">> per write
  stdout_text,   \* what reached _ORIGINAL_STDOUT, likewise
  \* CodeExecutor, one file
  ex_pc,         \* position in analyze_data: "idle", "execute", "fix", "done"
  code,          \* the current code, 0 for the empty string
  code_kind,     \* [generated code -> what it does when executed]
  fix_attempt,       \* loop variable of _execute_and_fix
  executions,    \* outcome of every exec so far: "ok" or "failed", in order
  exec_failures, \* [code, error] of every failed execution, in order
  fix_requests,  \* [previous_code, error_message] of every fix request, in order
  llm_analysis,  \* what analyze_data returned, NotAnalysed before
  \* the directory fallback scan
  tree,          \* the files on disk around the data directory
  directory,     \* name of the data directory the scan is given
  scan_roots,    \* the directories _scan_directory_for_data_files was given
  data_files,    \* what _get_all_data_files_in_directory returned, NotScanned before
  \* DataAnalystAgent.analyze
  sub_problems,  \* brain_output['sub_problems']: a list of [DB_flag, DB_list]
  an_pc,         \* position in analyze: "start", "planner", "files", "returned", "raised"
  resolved_files, \* the list the Planner and the Executor are given
  analysis_plan, \* the plan after Stage 1, NoPlan for None
  resolved_files_ordered, \* the order the Executor processes the files in
  file_analyses, \* the per-file results
  executor_errors, \* positions in file_analyses for which analyze_data returned an error
  model_calls,   \* stage -> how often the stage was entered
  summarizer_end, \* how the Summarizer's call ended, "none" before
  an_output      \* what analyze returned, NotReturned before

llm_vars == <<llm_resps, llm_result, brain_result>>

main_vars == <<dummy, env, home, stem, only, jobs, cpu_count, max_workers, mainpc, failures, collected, reported, run>>

exec_vars == <<sys_stdout, old_stdout, exec_outcome>>

job_vars == <<fs, pc, ref, outcome, escaped, exec_vars>>

hist_vars == <<started, invoked, requests, created, touched, handed, handedMissing, failedAt, how,
               fs0, prevOutcome, prevFailedAt>>

resolver_vars == <<disk, file_index, db_list, resolved, scanned, res_op>>

loader_vars == <<format_type, first_line, csv_lines, max_sample_rows, metadata>>

pipeline_vars == <<llm_vars, main_vars, job_vars, hist_vars>>

output_vars == <<out_pc, out_count, status_lock, stdout_lock, suppress, stderr_text, stdout_text>>

executor_vars == <<ex_pc, code, code_kind, fix_attempt, executions, exec_failures, fix_requests, llm_analysis>>

scan_vars == <<tree, directory, scan_roots, data_files>>

analyze_vars == <<sub_problems, an_pc, resolved_files, analysis_plan, resolved_files_ordered,
                  file_analyses, executor_errors, model_calls, summarizer_end, an_output>>

VARIABLES
  ctx_verbose,   \* args.verbose
  ctx_flag,      \* [thread -> value of _suppress_stdout_flag in the thread's context]
  ctx_problem,   \* [thread -> value of _current_problem in the thread's context]
  ctx_tokens,    \* [thread -> the tokens of the set() calls not yet reset, newest first]
  ctx_pc,        \* [thread -> "free", "pipeline", "block", "block_plain", "raising"]
  ctx_job,       \* [thread -> the job the thread runs, 0 when free]
  ctx_next,      \* the next job to be handed to a thread
  ctx_blocks,    \* [thread -> suppress_stdout blocks the current job has entered]
  \* history variables
  ctx_done,      \* [thread -> how the last job it ran ended, "none" before the first]
  ctx_write,     \* the last call of the router's write, NoWrite before the first
  ctx_line       \* the last call of status(), NoLine before the first

context_vars == <<ctx_verbose, ctx_flag, ctx_problem, ctx_tokens, ctx_pc, ctx_job, ctx_next,
                  ctx_blocks, ctx_done, ctx_write, ctx_line>>

analyst_vars == <<resolver_vars, loader_vars, output_vars, executor_vars, scan_vars, analyze_vars,
                  context_vars>>

\* what the context variables' users leave alone
context_frame == <<pipeline_vars, resolver_vars, loader_vars, output_vars, executor_vars, scan_vars,
                   analyze_vars>>

\* what the FileResolver leaves alone
resolver_frame == <<pipeline_vars, loader_vars, output_vars, executor_vars, scan_vars, analyze_vars, context_vars>>

\* what the DataLoader leaves alone
loader_frame == <<pipeline_vars, resolver_vars, output_vars, executor_vars, scan_vars, analyze_vars, context_vars>>

\* what status() and print() leave alone
output_frame == <<pipeline_vars, resolver_vars, loader_vars, executor_vars, scan_vars, analyze_vars, context_vars>>

\* what the fallback scan leaves alone
scan_frame == <<pipeline_vars, resolver_vars, loader_vars, output_vars, executor_vars, analyze_vars, context_vars>>

\* what analyze leaves alone
analyze_frame == <<pipeline_vars, resolver_vars, loader_vars, output_vars, executor_vars, scan_vars, context_vars>>

\* what the CodeExecutor leaves alone
executor_frame == <<pipeline_vars, resolver_vars, loader_vars, output_vars, scan_vars, analyze_vars, context_vars>>

vars == <<pipeline_vars, analyst_vars>>

\* problem_output_dir = Path(file_path).parent (main.py 187), as its content
ProblemDir(p) == fs[home[p]]

\* final_answer_path (main.py 195, 530) and file_path, within the directory
FinalAnswer(p) == AnswerName(stem[p])

ProblemFile(p) == ProblemName(stem[p])

\* ------------------------------------------------------ agents (one step)
\* json.load of an upstream file: fails on a missing and on an empty file
ReadsJson(d, f) == d[f] \notin {"absent", "empty"}

\* open(path, "r") of every upstream artifact handed to the agent
ReadsAll(d, ins) == \A f \in ins : Exists(d, f)

\* What run_for_problem did: the directory after it, whether it raised, the
\* requests it made, and why it ended: "ok", "read" (an upstream file could
\* not be read), "retries" (every request failed), "nocontent" (the response
\* had no text).
AgentResult(d, raised, attempts, why) ==
  [d |-> d, raised |-> raised, attempts |-> attempts, why |-> why]

\* An AnswerAgent that returns without output.txt when the model's answer
\* has no content.
AnswerAgentRunSilent(d, s, ins, resps) ==
  IF ~(ReadsJson(d, Primary("Brain")) /\ ReadsAll(d, ins))
    THEN AgentResult(d, TRUE, 0, "read")
    ELSE LET d1 == WriteFile(WriteFile(d, SysPrompt(s), "prompt"), UserPrompt(s), "prompt")
             r == CallLLM(resps)
         IN  IF r.outcome = "raise"
               THEN AgentResult(d1, TRUE, r.attempts, "retries")
               ELSE IF r.value = "none"
                 THEN AgentResult(d1, FALSE, r.attempts, "ok")
                 ELSE AgentResult(WriteFile(d1, Primary(s), "text"), FALSE, r.attempts, "ok")

\* AnswerAgent.run_for_problem: reads, writes the two prompts, calls the
\* model, writes output.txt with Path.write_text (which rejects a non-str
\* before it opens the file).
AnswerAgentRun(d, s, ins, resps) ==
  IF ~(ReadsJson(d, Primary("Brain")) /\ ReadsAll(d, ins))
    THEN AgentResult(d, TRUE, 0, "read")
    ELSE LET d1 == WriteFile(WriteFile(d, SysPrompt(s), "prompt"), UserPrompt(s), "prompt")
             r == CallLLM(resps)
         IN  IF r.outcome = "raise"
               THEN AgentResult(d1, TRUE, r.attempts, "retries")
               ELSE IF r.value = "none"
                 THEN AgentResult(d1, TRUE, r.attempts, "nocontent")
                 ELSE AgentResult(WriteFile(d1, Primary(s), "text"), FALSE, r.attempts, "ok")

\* BlueXAgent.run_for_problem: as above, but output.txt is opened for writing
\* before f.write(results), so a None result leaves an empty output.txt.
BlueXAgentRun(d, s, ins, resps) ==
  IF ~(ReadsJson(d, Primary("Brain")) /\ ReadsAll(d, ins))
    THEN AgentResult(d, TRUE, 0, "read")
    ELSE LET d1 == WriteFile(WriteFile(d, SysPrompt(s), "prompt"), UserPrompt(s), "prompt")
             r == CallLLM(resps)
         IN  IF r.outcome = "raise"
               THEN AgentResult(d1, TRUE, r.attempts, "retries")
               ELSE IF r.value = "none"
                 THEN AgentResult(WriteFile(d1, Primary(s), "empty"), TRUE, r.attempts,
                                  "nocontent")
                 ELSE AgentResult(WriteFile(d1, Primary(s), "text"), FALSE, r.attempts, "ok")

\* SearchAgent, BlueAgent and RedAgent.run_for_problem (uniform agent step:
\* render the prompts from the upstream artifacts, call the model with the
\* bounded retry, persist system prompt, user prompt and response; raise on
\* failure).
UniformAgentRun(d, s, ins, resps) ==
  IF ~(ReadsJson(d, Primary("Brain")) /\ ReadsAll(d, ins))
    THEN AgentResult(d, TRUE, 0, "read")
    ELSE LET d1 == WriteFile(WriteFile(d, SysPrompt(s), "prompt"), UserPrompt(s), "prompt")
             r == CallLLM(resps)
         IN  IF r.outcome = "raise"
               THEN AgentResult(d1, TRUE, r.attempts, "retries")
               ELSE IF r.value = "none"
                 THEN AgentResult(d1, TRUE, r.attempts, "nocontent")
                 ELSE AgentResult(WriteFile(d1, Primary(s), "text"), FALSE, r.attempts, "ok")

AgentRun(d, s, ins, resps) ==
  CASE s = "Answer" -> AnswerAgentRun(d, s, ins, resps)
    [] s = "BlueX"  -> BlueXAgentRun(d, s, ins, resps)
    [] OTHER        -> UniformAgentRun(d, s, ins, resps)

\* an acceptance that would return every response the request delivers
BrainAcceptsAnyResponse(r) == ~IsException(r)

\* BrainAgent.analyze_question: the retry loop; a response that does not
\* parse (json.loads) or validate raises inside the try and is retried.
BrainAccepts(r) == r = "ok"

RECURSIVE BrainLoop(_, _, _)
BrainLoop(resps, attempt, last_err) ==
  IF attempt > MAX_RETRIES
    THEN [outcome |-> "raise", value |-> last_err, attempts |-> attempt - 1]
    ELSE IF BrainAccepts(resps[attempt])
      THEN [outcome |-> "return", value |-> resps[attempt], attempts |-> attempt]
      ELSE BrainLoop(resps, attempt + 1, resps[attempt])

AnalyzeQuestion(resps) == BrainLoop(resps, 1, "noerr")

\* before the call
NotAnalyzed == [outcome |-> "pending", value |-> "noerr", attempts |-> 0]

\* ------------------------------------------------------------ run_pipeline
RefNames == {"search", "blue", "red", "bluex", "review", "answer"}

NoRefs == [n \in RefNames |-> "unset"]

NoWhy == [s \in Steps |-> "none"]

\* the completion artifacts in step order
CompletionOrder ==
  <<Primary("Brain"), Primary("Search"), Legacy("Search"), Primary("DataAnalysis"),
    Primary("Blue"), Legacy("Blue"), Primary("Red"), Legacy("Red"),
    Primary("BlueX"), Legacy("BlueX"), Primary("RedReview"), Legacy("RedReview"),
    Primary("Answer")>>

\* history: the completion artifacts that d2 has and d had not
NewArtifacts(d, d2, answer) ==
  LET IsNew(f) == d[f] = "absent" /\ d2[f] # "absent"
  IN  SelectSeq(Append(CompletionOrder, answer), IsNew)

\* history: the paths handed to an agent that name no file
MissingOf(d, s, ins) == {<<s, f>> : f \in {g \in ins : d[g] = "absent"}}

\* The upstream result paths run_pipeline hands to the agent of step s (besides
\* brain_path), r being the result variables of the run: search_result_file,
\* blue_result_file, red_result_file, bluex_result_file, final_review_file.
InputsPrimary(s, r) ==
  CASE s = "Blue"      -> {Primary("Search"), Primary("DataAnalysis")}
    [] s = "Red"       -> {Primary("Blue")}
    [] s = "BlueX"     -> {Primary("Blue"), Primary("Red"), Primary("DataAnalysis")}
    [] s = "RedReview" -> {Primary("BlueX")}
    [] s = "Answer"    -> {Primary("Search"), Primary("BlueX"), Primary("RedReview")}
    [] OTHER           -> {}

Inputs(s, r) ==
  CASE s = "Blue"      -> {r.search, Primary("DataAnalysis")}
    [] s = "Red"       -> {r.blue}
    [] s = "BlueX"     -> {r.blue, r.red, Primary("DataAnalysis")}
    [] s = "RedReview" -> {r.bluex}
    [] s = "Answer"    -> {r.search, r.bluex, r.review}
    [] OTHER           -> {}

\* except Exception as e: (main.py 543): every exception of a step is caught
ExceptionPropagates == FALSE

ExceptionCaught == TRUE

\* What one block of run_pipeline did: the directory after it, whether an
\* agent was invoked, the requests it made, whether the block raised, the
\* path the block leaves in its result variable, and how the block went
\* ("skip", "legacy", or how the agent ended).
Block(d, inv, att, missing, raised, path, why) ==
  [d |-> d, inv |-> inv, att |-> att, missing |-> missing, raised |-> raised,
   path |-> path, why |-> why]

\* history: the files one block wrote (d is the directory before it), and the
\* checkpoint it took instead of running its agent
TouchedBy(d, b) ==
  {f \in Files : b.d[f] # d[f]} \cup (IF b.inv THEN {} ELSE {b.path})

\* The state change of one block of problem p at step s.
Effect(p, s, b, nextpc, refname) ==
  /\ fs' = [fs EXCEPT ![home[p]] = b.d]
  /\ invoked' = [invoked EXCEPT ![p] = IF b.inv THEN Append(@, s) ELSE @]
  /\ requests' = [requests EXCEPT ![p] = @ + b.att]
  /\ handedMissing' = [handedMissing EXCEPT ![p] = @ \cup b.missing]
  /\ touched' = [touched EXCEPT ![p] =
                   @ \cup {<<home[p], f>> : f \in TouchedBy(ProblemDir(p), b)}]
  /\ handed' = [handed EXCEPT ![p] =
                  IF b.inv THEN @ \cup {<<s, f>> : f \in Inputs(s, ref[p])} ELSE @]
  /\ created' = [created EXCEPT ![p] = @ \o NewArtifacts(ProblemDir(p), b.d, FinalAnswer(p))]
  /\ how' = [how EXCEPT ![p][s] = b.why]
  /\ IF b.raised
       THEN /\ pc' = [pc EXCEPT ![p] = "done"]
            /\ outcome' = [outcome EXCEPT ![p] = "failed"]
            /\ failedAt' = [failedAt EXCEPT ![p] = s]
            /\ escaped' = [escaped EXCEPT ![p] = ~ExceptionCaught]
            /\ UNCHANGED ref
       ELSE /\ pc' = [pc EXCEPT ![p] = nextpc]
            /\ ref' = IF refname = "none" THEN ref
                      ELSE [ref EXCEPT ![p][refname] = b.path]
            /\ UNCHANGED <<outcome, failedAt, escaped>>
  /\ UNCHANGED <<llm_vars, analyst_vars, main_vars, started, fs0, prevOutcome, prevFailedAt>>

\* The response sequences the pipeline model draws for one agent step: the
\* first request answered, every request failing, a first answer without content.
AllSame(r) == [i \in 1..MAX_RETRIES |-> r]

PipelineResps == {AllSame("ok"), AllSame("err1"), AllSame("none")}

\* The remote model as problem p sees it at step s: env[p] is "any" (each
\* step draws its responses freely), "ok" (every request is answered), "code"
\* (every request is answered and the data analysis runs generated code) or
\* the name of the one step whose requests always fail.
RespsFor(p, s, free) ==
  IF env[p] = "any" THEN free
  ELSE IF env[p] = s THEN {AllSame("err1")}
  ELSE {AllSame("ok")}

\* final_answer_path.exists() (main.py 197)
FinalAnswerIgnored(d, answer) == FALSE

FinalAnswerExists(d, answer) == Exists(d, answer)

\* lines 175-204: the whole-pipeline shortcut, then reading the question
RunPipelineStart(p) ==
  /\ pc[p] = "start"
  /\ IF FinalAnswerExists(ProblemDir(p), FinalAnswer(p))
       THEN /\ pc' = [pc EXCEPT ![p] = "done"]
            /\ outcome' = [outcome EXCEPT ![p] = "skipped"]
            /\ UNCHANGED <<failedAt, escaped>>
       ELSE IF Exists(ProblemDir(p), ProblemFile(p))
         THEN /\ pc' = [pc EXCEPT ![p] = "Brain"]
              /\ UNCHANGED <<outcome, failedAt, escaped>>
         ELSE /\ pc' = [pc EXCEPT ![p] = "done"]
              /\ outcome' = [outcome EXCEPT ![p] = "failed"]
              /\ failedAt' = [failedAt EXCEPT ![p] = "read"]
              /\ escaped' = [escaped EXCEPT ![p] = ~ExceptionCaught]
  /\ started' = [started EXCEPT ![p] = @ + 1]
  /\ touched' = [touched EXCEPT ![p] =
                   IF FinalAnswerExists(ProblemDir(p), FinalAnswer(p))
                     THEN @ \cup {<<home[p], FinalAnswer(p)>>} ELSE @]
  /\ UNCHANGED <<llm_vars, analyst_vars, main_vars, fs, ref, exec_vars, invoked, requests, created, handed,
                 handedMissing, how, fs0, prevOutcome, prevFailedAt>>

\* with open(brain_output_path, "w") ...: f.write(model_dump_json) (main.py 220)
BrainSaveSkipped(d) == d

BrainSave(d) == WriteFile(d, Primary("Brain"), "json")

\* lines 206-222
BrainBlock(d, resps) ==
  IF Exists(d, Primary("Brain"))
    THEN Block(d, FALSE, 0, {}, FALSE, Primary("Brain"), "skip")
    ELSE LET r == AnalyzeQuestion(resps)
         IN  IF r.outcome = "raise"
               THEN Block(d, TRUE, r.attempts, {}, TRUE, Primary("Brain"), "retries")
               ELSE Block(BrainSave(d), TRUE, r.attempts, {}, FALSE, Primary("Brain"), "ok")

BrainStep(p) ==
  /\ pc[p] = "Brain"
  /\ UNCHANGED exec_vars
  /\ \E resps \in RespsFor(p, "Brain",
                          {AllSame("ok"), AllSame("err1"), AllSame("badjson")}) :
       Effect(p, "Brain", BrainBlock(ProblemDir(p), resps), "Search", "none")

\* legacy.exists() (main.py 241, 379, 411, 442, 475)
LegacyIgnored(d, s) == FALSE

LegacyExists(d, s) == Exists(d, Legacy(s))

\* The block of a step with a legacy name (lines 232-264 for Search, 371-401
\* for Blue, 403-432, 434-465, 467-496): skip on output.txt, else adopt the
\* legacy file, else run the agent and look for its output again.  Only the
\* Search block raises when the agent left neither file.
LegacyBlock(d, s, ins, resps) ==
  IF Exists(d, Primary(s))
    THEN Block(d, FALSE, 0, {}, FALSE, Primary(s), "skip")
    ELSE IF LegacyExists(d, s)
      THEN Block(d, FALSE, 0, {}, FALSE, Legacy(s), "legacy")
      ELSE LET r == AgentRun(d, s, ins, resps)
               m == MissingOf(d, s, ins \cup {Primary("Brain")})
           IN  IF r.raised
                 THEN Block(r.d, TRUE, r.attempts, m, TRUE, Primary(s), r.why)
                 ELSE IF Exists(r.d, Primary(s))
                   THEN Block(r.d, TRUE, r.attempts, m, FALSE, Primary(s), r.why)
                   ELSE IF LegacyExists(r.d, s)
                     THEN Block(r.d, TRUE, r.attempts, m, FALSE, Legacy(s), r.why)
                     ELSE Block(r.d, TRUE, r.attempts, m, s = "Search", Primary(s),
                                "nooutput")

SearchStep(p) ==
  /\ pc[p] = "Search"
  /\ UNCHANGED exec_vars
  /\ \E resps \in RespsFor(p, "Search", PipelineResps) :
       Effect(p, "Search", LegacyBlock(ProblemDir(p), "Search", Inputs("Search", ref[p]), resps),
              "DataAnalysis", "search")

\* How one invocation of the data-analysis agent can end: its constructor
\* raises; run_for_problem raises; analyze returns a 'skipped' or an 'error'
\* status object; the Summarizer's text; the per-file JSON results.
DAOutcomes == {"construct_fail", "raise", "skipped", "error", "summary", "json"}

\* Model requests of one data-analysis run: none when analyze returns a
\* status object before the Planner, at least one otherwise.
DataAnalystCalls(o) == IF o \in {"summary", "json"} THEN 1 ELSE 0

\* DataAnalystAgent.run_for_problem: loads the Brain JSON, analyzes, saves the
\* output under 03_data_analysis/ (.md for a text, .json for an object) and
\* returns {"output", "output_path", "status"}.
DataAnalystRun(d, o) ==
  IF o = "raise" \/ ~ReadsJson(d, Primary("Brain"))
    THEN [d |-> d, raised |-> TRUE, isdict |-> FALSE, text |-> "absent", produced |-> "none"]
    ELSE IF o = "summary"
      THEN [d |-> WriteFile(d, ProducedMd, "summary"), raised |-> FALSE, isdict |-> TRUE,
            text |-> "summary", produced |-> ProducedMd]
      ELSE [d |-> WriteFile(d, ProducedJson, "status"), raised |-> FALSE, isdict |-> TRUE,
            text |-> "status", produced |-> ProducedJson]

\* shutil.move(produced_path, step3_dir / f"data_analysis{ext}") (main.py 303-314)
MoveProduced(d, produced) ==
  LET target == IF produced = ProducedMd THEN MovedMd ELSE MovedJson
  IN  [d EXCEPT ![target] = d[produced], ![produced] = "absent"]

\* try: run_for_problem ... except Exception: analysis_result = None (main.py 282-291)
DataAnalysisErrorPropagates == FALSE

DataAnalysisErrorCaught == TRUE

\* lines 266-369: dm is the content of the dummy file
DataAnalysisBlock(d, dm, o) ==
  LET out == Primary("DataAnalysis")
  IN
  IF Exists(d, out)
    THEN Block(d, FALSE, 0, {}, FALSE, out, "skip")
    ELSE IF o = "construct_fail"
      THEN Block(d, TRUE, 0, {}, TRUE, out, o)
      ELSE LET r == DataAnalystRun(d, o)
               m == MissingOf(d, "DataAnalysis", {Primary("Brain")})
               n == DataAnalystCalls(o)
               w == IF r.raised THEN "raise" ELSE o
           IN  IF r.raised /\ ~DataAnalysisErrorCaught
                 THEN Block(r.d, TRUE, n, m, TRUE, out, w)
                 ELSE IF ~r.raised /\ r.isdict
                   THEN Block(WriteFile(MoveProduced(r.d, r.produced), out, r.text),
                              TRUE, n, m, FALSE, out, w)
                   ELSE IF dm # "absent"
                     THEN Block(WriteFile(r.d, out, dm), TRUE, n, m, FALSE, out, w)
                     ELSE Block(r.d, TRUE, n, m, TRUE, out, w)

\* the data-analysis agent under env[p]
DAOutcomesFor(p) ==
  IF env[p] = "any" THEN DAOutcomes
  ELSE IF env[p] = "DataAnalysis" THEN {"raise"}
  ELSE IF env[p] = "code" THEN {"summary"}
  ELSE {"skipped"}

\* the StringIO that _execute_code_safely of job p creates
Buffer(p) == "StringIO" \o Digits[p]

\* The data analysis reaches CodeExecutor._execute_code_safely: the step is
\* not skipped, the Brain JSON loads, and the analysis gets as far as a result.
ExecutesCode(d, o) ==
  /\ ~Exists(d, Primary("DataAnalysis"))
  /\ ReadsJson(d, Primary("Brain"))
  /\ o \in {"summary", "json"}

\* lines 266-369 up to the generated code: old_stdout = sys.stdout;
\* sys.stdout = io.StringIO() (data_executor.py 216-217); or the whole block
\* when no code is executed
DataAnalysisStep(p) ==
  /\ pc[p] = "DataAnalysis"
  /\ \E o \in DAOutcomesFor(p) :
       IF ExecutesCode(ProblemDir(p), o)
         THEN /\ old_stdout' = [old_stdout EXCEPT ![p] = sys_stdout]
              /\ sys_stdout' = Buffer(p)
              /\ exec_outcome' = [exec_outcome EXCEPT ![p] = o]
              /\ pc' = [pc EXCEPT ![p] = "exec"]
              /\ UNCHANGED <<llm_vars, analyst_vars, main_vars, fs, ref, outcome, escaped, hist_vars>>
         ELSE /\ Effect(p, "DataAnalysis", DataAnalysisBlock(ProblemDir(p), dummy, o),
                        "Blue", "none")
              /\ UNCHANGED exec_vars

\* finally: sys.stdout = old_stdout (data_executor.py 225-226), then the rest
\* of the data-analysis block
ExecReturn(p) ==
  /\ pc[p] = "exec"
  /\ sys_stdout' = old_stdout[p]
  /\ old_stdout' = [old_stdout EXCEPT ![p] = "unset"]
  /\ exec_outcome' = [exec_outcome EXCEPT ![p] = "none"]
  /\ Effect(p, "DataAnalysis", DataAnalysisBlock(ProblemDir(p), dummy, exec_outcome[p]),
            "Blue", "none")

\* lines 371-401: full_report_path = search_result_file,
\* data_analysis_results_path = data_analysis_file
BlueStep(p) ==
  /\ pc[p] = "Blue"
  /\ UNCHANGED exec_vars
  /\ \E resps \in RespsFor(p, "Blue", PipelineResps) :
       Effect(p, "Blue",
              LegacyBlock(ProblemDir(p), "Blue", Inputs("Blue", ref[p]), resps),
              "Red", "blue")

\* lines 403-432: blue_report_path = blue_result_file
RedStep(p) ==
  /\ pc[p] = "Red"
  /\ UNCHANGED exec_vars
  /\ \E resps \in RespsFor(p, "Red", PipelineResps) :
       Effect(p, "Red", LegacyBlock(ProblemDir(p), "Red", Inputs("Red", ref[p]), resps), "BlueX", "red")

\* lines 434-465: full_report_path = blue_result_file, red_report_path =
\* red_result_file, data_analysis_results_path = data_analysis_file
BlueXStep(p) ==
  /\ pc[p] = "BlueX"
  /\ UNCHANGED exec_vars
  /\ \E resps \in RespsFor(p, "BlueX", PipelineResps) :
       Effect(p, "BlueX",
              LegacyBlock(ProblemDir(p), "BlueX", Inputs("BlueX", ref[p]), resps),
              "RedReview", "bluex")

\* lines 467-496: blue_report_path = bluex_result_file
RedReviewStep(p) ==
  /\ pc[p] = "RedReview"
  /\ UNCHANGED exec_vars
  /\ \E resps \in RespsFor(p, "RedReview", PipelineResps) :
       Effect(p, "RedReview", LegacyBlock(ProblemDir(p), "RedReview", Inputs("RedReview", ref[p]), resps),
              "Answer", "review")

\* lines 498-520: no legacy name; search_output_path = search_result_file,
\* completed_answer_path = bluex_result_file, red_review_path = final_review_file
\* a step 8 that would run the agent without looking for its output
AnswerBlockAlways(d, ins, resps) ==
  LET r == AgentRun(d, "Answer", ins, resps)
      m == MissingOf(d, "Answer", ins \cup {Primary("Brain")})
  IN  Block(r.d, TRUE, r.attempts, m, r.raised, Primary("Answer"), r.why)

AnswerBlock(d, ins, resps) ==
  IF Exists(d, Primary("Answer"))
    THEN Block(d, FALSE, 0, {}, FALSE, Primary("Answer"), "skip")
    ELSE LET r == AgentRun(d, "Answer", ins, resps)
             m == MissingOf(d, "Answer", ins \cup {Primary("Brain")})
         IN  Block(r.d, TRUE, r.attempts, m, r.raised, Primary("Answer"), r.why)

AnswerStep(p) ==
  /\ pc[p] = "Answer"
  /\ UNCHANGED exec_vars
  /\ \E resps \in RespsFor(p, "Answer", PipelineResps) :
       Effect(p, "Answer",
              AnswerBlock(ProblemDir(p), Inputs("Answer", ref[p]), resps),
              "final", "answer")

\* lines 524-541: copy 08_answer/output.txt to answer_<id>.txt, or write the
\* error text when the agent output is missing
WriteFinalAnswer(p) ==
  /\ pc[p] = "final"
  /\ LET d == ProblemDir(p)
         d2 == IF Exists(d, ref[p].answer)
                 THEN WriteFile(d, FinalAnswer(p), d[ref[p].answer])
                 ELSE WriteFile(d, FinalAnswer(p), "errtext")
     IN  /\ fs' = [fs EXCEPT ![home[p]] = d2]
         /\ created' = [created EXCEPT ![p] = @ \o NewArtifacts(d, d2, FinalAnswer(p))]
         /\ touched' = [touched EXCEPT ![p] = @ \cup {<<home[p], FinalAnswer(p)>>}]
  /\ pc' = [pc EXCEPT ![p] = "done"]
  /\ outcome' = [outcome EXCEPT ![p] = "success"]
  /\ UNCHANGED <<llm_vars, analyst_vars, main_vars, ref, escaped, exec_vars, started, invoked, requests, handed,
                 handedMissing, failedAt, how, fs0, prevOutcome, prevFailedAt>>

RunPipeline(p) ==
  \/ RunPipelineStart(p)
  \/ BrainStep(p)
  \/ SearchStep(p)
  \/ DataAnalysisStep(p)
  \/ ExecReturn(p)
  \/ BlueStep(p)
  \/ RedStep(p)
  \/ BlueXStep(p)
  \/ RedReviewStep(p)
  \/ AnswerStep(p)
  \/ WriteFinalAnswer(p)

\* ------------------------------------------------------------------- main
\* the names of the directories under the input directory
DirNames == <<"d1", "d2", "d3", "d4", "d5", "d6", "d7", "d8", "d9">>

\* The path glob returns for the file of problem p: input_dir joined with the
\* directory and the file name (main.py 603-604).
FilePath(p) == <<"problems", "/", DirNames[home[p]], "/">> \o stem[p] \o <<".txt">>

\* txt_files as glob returns it: the problem files, in discovery order
Discovered == [i \in 1..NumProblems |-> i]

\* str.strip(chars)
RECURSIVE LStrip(_, _)
LStrip(t, chars) ==
  IF t # <<>> /\ Head(t) \in chars THEN LStrip(Tail(t), chars) ELSE t

RECURSIVE RStrip(_, _)
RStrip(t, chars) ==
  IF t # <<>> /\ t[Len(t)] \in chars THEN RStrip(SubSeq(t, 1, Len(t) - 1), chars) ELSE t

\* str(item).strip().strip("\"'") (main.py 616)
StripItem(item) == RStrip(LStrip(RStrip(LStrip(item, {" "}), {" "}), {"\"", "'"}), {"\"", "'"})

\* any(sep in item for sep in ("/", "\\", ":")) (main.py 621)
LooksLikePath(item) == \E i \in 1..Len(item) : item[i] \in {"/", "\\", ":"}

\* str.isdigit()
IsDigit(item) ==
  /\ item # <<>>
  /\ \A i \in 1..Len(item) : item[i] \in {Digits[k] : k \in 1..Len(Digits)} \cup {"0"}

\* os.path.basename: what follows the last "/"
Basename(path) ==
  LET seps == {i \in 1..Len(path) : path[i] = "/"}
      last == IF seps = {} THEN 0 ELSE CHOOSE i \in seps : \A j \in seps : j <= i
  IN  SubSeq(path, last + 1, Len(path))

\* os.path.splitext(name)[0]: the name without its extension; a name that is
\* only an extension keeps it
Extensions == {".txt", ".TXT", ".md"}

SplitextRoot(name) ==
  IF Len(name) > 1 /\ name[Len(name)] \in Extensions /\ name[Len(name) - 1] # "/"
    THEN SubSeq(name, 1, Len(name) - 1) ELSE name

\* the segments of a path between its "/"
RECURSIVE Segments(_, _, _)
Segments(path, cur, acc) ==
  IF path = <<>> THEN Append(acc, cur)
  ELSE IF Head(path) = "/" THEN Segments(Tail(path), <<>>, Append(acc, cur))
  ELSE Segments(Tail(path), Append(cur, Head(path)), acc)

\* os.path.normpath on the segments: empty and "." segments are dropped, ".."
\* removes the segment before it
RECURSIVE NormSegments(_, _, _)
NormSegments(segs, absolute, acc) ==
  IF segs = <<>> THEN acc
  ELSE LET seg == Head(segs)
       IN  IF seg = <<>> \/ seg = <<".">>
             THEN NormSegments(Tail(segs), absolute, acc)
           ELSE IF seg = <<"..">>
             THEN IF acc # <<>> /\ acc[Len(acc)] # <<"..">>
                    THEN NormSegments(Tail(segs), absolute, SubSeq(acc, 1, Len(acc) - 1))
                  ELSE IF absolute
                    THEN NormSegments(Tail(segs), absolute, acc)
                    ELSE NormSegments(Tail(segs), absolute, Append(acc, seg))
           ELSE NormSegments(Tail(segs), absolute, Append(acc, seg))

RECURSIVE JoinSegments(_)
JoinSegments(segs) ==
  IF segs = <<>> THEN <<>>
  ELSE IF Len(segs) = 1 THEN Head(segs)
  ELSE Head(segs) \o <<"/">> \o JoinSegments(Tail(segs))

NormPath(path) ==
  LET absolute == path # <<>> /\ Head(path) = "/"
      joined == JoinSegments(NormSegments(Segments(path, <<>>, <<>>), absolute, <<>>))
  IN  IF absolute THEN <<"/">> \o joined
      ELSE IF joined = <<>> THEN <<".">> ELSE joined

\* a want that would take no stem from a path item
WantOfNames(raw) ==
  LET item == StripItem(raw)
  IN  IF item = <<>> \/ LooksLikePath(item) THEN {}
      ELSE IF IsDigit(item) THEN {<<"problem_">> \o item}
      ELSE IF Lower(item)[Len(item)] = ".txt" THEN {SplitextRoot(item)}
      ELSE {item}

\* The stems one item of --only adds to want (main.py 615-643).
WantOf(raw) ==
  LET item == StripItem(raw)
  IN  IF item = <<>> THEN {}
      ELSE IF LooksLikePath(item)
        THEN LET stem_of_item == SplitextRoot(Basename(item))
             IN  IF stem_of_item # <<>> THEN {stem_of_item} ELSE {}
      ELSE IF IsDigit(item) THEN {<<"problem_">> \o item}
      ELSE IF Lower(item)[Len(item)] = ".txt" THEN {SplitextRoot(item)}
      ELSE {item}

\* The paths one item of --only adds to want_paths (main.py 621-622).
WantPathsOf(raw) ==
  LET item == StripItem(raw)
  IN  IF item # <<>> /\ LooksLikePath(item) THEN {NormPath(item)} ELSE {}

\* de-duplication that keeps the first occurrence (main.py 657-658)
RECURSIVE Dedup(_, _)
Dedup(files, seen) ==
  IF files = <<>> THEN <<>>
  ELSE IF Head(files) \in seen THEN Dedup(Tail(files), seen)
  ELSE <<Head(files)>> \o Dedup(Tail(files), seen \cup {Head(files)})

\* the test of the filtering loop (main.py 646-655)
Matches(p, want, want_paths) ==
  \/ NormPath(FilePath(p)) \in want_paths
  \/ SplitextRoot(Basename(FilePath(p))) \in want

\* lines 610-658: txt_files after the --only filter; items is args.only, the
\* empty sequence when the option is not given
FilterOnly(files, items) ==
  IF items = <<>> THEN files
  ELSE LET want == UNION {WantOf(items[i]) : i \in 1..Len(items)}
           want_paths == UNION {WantPathsOf(items[i]) : i \in 1..Len(items)}
           Keep(p) == Matches(p, want, want_paths)
       IN  Dedup(SelectSeq(files, Keep), {})

\* if not DUMMY_DATA_ANALYSIS.exists(): write it (main.py 593-599)
EnsureDummy(dm) == IF dm = "absent" THEN "dummy" ELSE dm

\* a pool of half the processors, without the floor of one worker
PoolSizeHalf(n, cpus) == IF n > cpus THEN cpus \div 2 ELSE n

\* lines 675-679
PoolSize(n, cpus) == IF n > cpus THEN (IF cpus \div 2 > 1 THEN cpus \div 2 ELSE 1) ELSE n

\* executor.submit(run_pipeline, file_path) for file_path in txt_files (main.py 685-688)
SubmittedUpToPool(js, workers) == {js[i] : i \in 1..(IF workers < Len(js) THEN workers ELSE Len(js))}

Submitted(js, workers) == {js[i] : i \in 1..Len(js)}

\* lines 550-688: the dummy file, discovery, then either the inline run of the
\* single problem or the submission of every problem to the pool
MainStart ==
  /\ mainpc = "init"
  /\ dummy' = EnsureDummy(dummy)
  /\ LET txt_files == FilterOnly(jobs, only)
     IN  /\ jobs' = txt_files
         /\ IF txt_files = <<>>
              THEN /\ mainpc' = "exit"
                   /\ max_workers' = 0
                   /\ UNCHANGED pc
              ELSE IF Len(txt_files) <= 1
                THEN /\ mainpc' = "inline"
                     /\ max_workers' = 0
                     /\ pc' = [p \in Problems |->
                                 IF p \in {txt_files[i] : i \in 1..Len(txt_files)}
                                   THEN "start" ELSE pc[p]]
                ELSE /\ mainpc' = "pool"
                     /\ max_workers' = PoolSize(Len(txt_files), cpu_count)
                     /\ pc' = [p \in Problems |->
                                 IF p \in Submitted(txt_files,
                                                   PoolSize(Len(txt_files), cpu_count))
                                   THEN "queued" ELSE pc[p]]
  /\ UNCHANGED <<llm_vars, analyst_vars, env, home, stem, only, cpu_count, failures, collected, reported,
                 run, fs, ref, outcome, escaped, exec_vars, hist_vars>>

\* A worker thread of the pool takes the next queued job.
Running == {p \in Problems : pc[p] \notin {"idle", "queued", "done"}}

FirstQueued(p) ==
  \E i \in 1..Len(jobs) :
    /\ jobs[i] = p
    /\ pc[p] = "queued"
    /\ \A j \in 1..(i - 1) : pc[jobs[j]] # "queued"

WorkerTake(p) ==
  /\ mainpc = "pool"
  /\ FirstQueued(p)
  /\ Cardinality(Running) < max_workers
  /\ pc' = [pc EXCEPT ![p] = "start"]
  /\ UNCHANGED <<llm_vars, analyst_vars, main_vars, fs, ref, outcome, escaped, exec_vars, hist_vars>>

\* lines 690-696: one iteration of the as_completed loop
Collect(p) ==
  /\ mainpc = "pool"
  /\ pc[p] = "done"
  /\ p \notin collected
  /\ collected' = collected \cup {p}
  /\ failures' = IF escaped[p] THEN failures + 1 ELSE failures
  /\ UNCHANGED <<llm_vars, analyst_vars, dummy, env, home, stem, only, jobs, cpu_count, max_workers, mainpc, reported, run,
                 job_vars, hist_vars>>

\* lines 698-699: the summary, printed only when failures is not zero
Summary ==
  /\ mainpc = "pool"
  /\ collected = {p \in Problems : pc[p] # "idle"}
  /\ mainpc' = "exit"
  /\ reported' = IF failures # 0 THEN failures ELSE -1
  /\ UNCHANGED <<llm_vars, analyst_vars, dummy, env, home, stem, only, jobs, cpu_count, max_workers, failures, collected, run,
                 job_vars, hist_vars>>

\* line 673: return after the inline run
InlineReturn ==
  /\ mainpc = "inline"
  /\ \A p \in Problems : pc[p] \in {"idle", "done"}
  /\ mainpc' = "exit"
  /\ UNCHANGED <<llm_vars, analyst_vars, dummy, env, home, stem, only, jobs, cpu_count, max_workers, failures, collected,
                 reported, run, job_vars, hist_vars>>

\* The program is started again on the same directories.
Rerun ==
  /\ mainpc = "exit"
  /\ run < MaxRuns
  /\ run' = run + 1
  /\ mainpc' = "init"
  /\ failures' = 0
  /\ collected' = {}
  /\ reported' = -1
  /\ max_workers' = 0
  /\ pc' = [p \in Problems |-> "idle"]
  /\ ref' = [p \in Problems |-> NoRefs]
  /\ sys_stdout' = "router"
  /\ UNCHANGED <<old_stdout, exec_outcome>>
  /\ outcome' = [p \in Problems |-> "none"]
  /\ escaped' = [p \in Problems |-> FALSE]
  /\ started' = [p \in Problems |-> 0]
  /\ invoked' = [p \in Problems |-> <<>>]
  /\ requests' = [p \in Problems |-> 0]
  /\ created' = [p \in Problems |-> <<>>]
  /\ touched' = [p \in Problems |-> {}]
  /\ handed' = [p \in Problems |-> {}]
  /\ handedMissing' = [p \in Problems |-> {}]
  /\ failedAt' = [p \in Problems |-> "none"]
  /\ how' = [p \in Problems |-> NoWhy]
  /\ fs0' = fs
  /\ prevOutcome' = outcome
  /\ prevFailedAt' = failedAt
  /\ jobs' = Discovered
  /\ UNCHANGED <<llm_vars, analyst_vars, dummy, env, home, stem, only, cpu_count, fs>>

\* ----------------------------------------------------------- FileResolver
\* File and folder names, references and paths are sequences of atoms: a
\* run of letters and digits, or one of the characters _ . - , / and space.
\* s in t on strings is modelled as "the atoms of s occur contiguously in t".
NonWord == {".", " ", "-", ",", "/"}

RECURSIVE IsInfixFrom(_, _, _)
IsInfixFrom(k, s, i) ==
  IF i + Len(k) > Len(s) THEN FALSE
  ELSE IF SubSeq(s, i + 1, i + Len(k)) = k THEN TRUE
  ELSE IsInfixFrom(k, s, i + 1)

\* k in s
IsInfix(k, s) == IsInfixFrom(k, s, 0)

\* re.findall(r'\w+', s): the maximal runs of word characters, in order
RECURSIVE FindallFrom(_, _, _, _)
FindallFrom(s, i, cur, acc) ==
  IF i > Len(s) THEN (IF cur = <<>> THEN acc ELSE Append(acc, cur))
  ELSE IF s[i] \in NonWord
       THEN FindallFrom(s, i + 1, <<>>, IF cur = <<>> THEN acc ELSE Append(acc, cur))
       ELSE FindallFrom(s, i + 1, Append(cur, s[i]), acc)

Findall(s) == FindallFrom(s, 1, <<>>, <<>>)

\* .replace(' ', '.').replace('_', '.')
Normalized(s) == [i \in 1..Len(s) |-> IF s[i] \in {" ", "_"} THEN "." ELSE s[i]]

\* db_list.split(',')
RECURSIVE SplitFrom(_, _, _, _)
SplitFrom(s, i, cur, acc) ==
  IF i > Len(s) THEN Append(acc, cur)
  ELSE IF s[i] = "," THEN SplitFrom(s, i + 1, <<>>, Append(acc, cur))
  ELSE SplitFrom(s, i + 1, Append(cur, s[i]), acc)

SplitCommas(s) == SplitFrom(s, 1, <<>>, <<>>)

\* str.strip() of a reference
StripRef(s) == RStrip(LStrip(s, {" "}), {" "})

\* the name of data_dir
DataDir == <<"data">>

\* The files that may lie under data_dir, in the order os.walk meets them.
Universe ==
  << [folder |-> <<"features">>, name |-> <<"notes", ".", "md">>],
     [folder |-> <<"Q1", ".", "features">>, name |-> <<"genelist", ".", "csv">>],
     [folder |-> <<"Q1", ".", "features">>, name |-> <<"Q1", ".", "tpm", ".", "csv">>],
     [folder |-> <<"genelist", "_", "csv">>, name |-> <<"genelist", "_", "v2", ".", "csv">>],
     [folder |-> <<"genelist", "_", "csv">>, name |-> <<"genelist", ".", "bak">>] >>

FileIds == 1..Len(Universe)

WalkOrder == [f \in FileIds |-> f]

\* str(path) of a file under data_dir
PathStr(f) == DataDir \o <<"/">> \o Universe[f].folder \o <<"/">> \o Universe[f].name

\* the positions of the dots that start a suffix of the name
SuffixDots(name) == {i \in 2..Len(name) : name[i] = "."}

LastDot(name, below) ==
  CHOOSE i \in SuffixDots(name) :
    i < below /\ \A j \in SuffixDots(name) : j < below => j <= i

\* _get_effective_ext: the last suffix in lower case, the last two when the
\* last one is .gz
EffectiveExt(name) ==
  IF SuffixDots(name) = {} THEN <<>>
  ELSE LET last == LastDot(name, Len(name) + 1)
           suffix == Lower(SubSeq(name, last, Len(name)))
       IN  IF suffix = <<".", "gz">> /\ \E i \in SuffixDots(name) : i < last
           THEN Lower(SubSeq(name, LastDot(name, last), Len(name)))
           ELSE suffix

\* supported_extensions, those of one atom after the dot and the .gz pairs
SupportedExtensions ==
  {<<".", e>> : e \in {"csv", "tsv", "txt", "tab", "xlsx", "xls", "json", "parquet", "feather",
                       "hdf5", "h5", "md", "markdown", "fastq", "fq", "fasta", "fa", "fna",
                       "ffn", "faa", "frn", "sam", "bam", "cram", "pod5", "fast5", "blow5",
                       "vcf", "bcf", "gff", "gff3", "gtf", "bed", "bedGraph", "bigWig", "bw",
                       "maf", "psl", "chain", "wig"}}
    \cup {<<".", e, ".", "gz">> : e \in {"fastq", "fq", "fasta", "fa", "vcf"}}

\* the distinct elements of a sequence, in the order of their first occurrence
RECURSIVE FirstSeen(_, _)
FirstSeen(s, seen) ==
  IF s = <<>> THEN <<>>
  ELSE IF Head(s) \in seen THEN FirstSeen(Tail(s), seen)
  ELSE <<Head(s)>> \o FirstSeen(Tail(s), seen \cup {Head(s)})

\* _build_file_index over the files dk on disk: by_name keyed by the lower
\* case file name, by_folder keyed by the folder's name in insertion order,
\* by_pattern every indexed file
BuildFileIndex(dk) ==
  LET Indexable(f) == f \in dk /\ EffectiveExt(Universe[f].name) \in SupportedExtensions
      indexed == SelectSeq(WalkOrder, Indexable)
      names == {Lower(Universe[indexed[i]].name) : i \in 1..Len(indexed)}
      folders == FirstSeen([i \in 1..Len(indexed) |-> Universe[indexed[i]].folder], {})
  IN  [by_name |-> [n \in names |->
                      LET Named(f) == Lower(Universe[f].name) = n
                      IN  SelectSeq(indexed, Named)],
       by_folder |-> [k \in 1..Len(folders) |->
                      LET InFolder(f) == Universe[f].folder = folders[k]
                      IN  [folder_name |-> folders[k], paths |-> SelectSeq(indexed, InFolder)]],
       by_pattern |-> indexed]

\* the index of a data_dir that does not exist, or holds no data file
EmptyIndex == BuildFileIndex({})

\* the records of a result list
Matched(paths, match_type) ==
  [i \in 1..Len(paths) |->
     [path |-> paths[i], name |-> Universe[paths[i]].name, match_type |-> match_type]]

Prefixes == <<(<<"Q1", ".">>), (<<"Q2", ".">>), (<<"Q3", ".">>), (<<"Q4", ".">>), (<<"Q5", ".">>)>>

RECURSIVE MatchPrefixed(_, _, _)
MatchPrefixed(ix, reference, k) ==
  IF k > Len(Prefixes) THEN <<>>
  ELSE LET prefixed == Lower(Prefixes[k] \o reference)
       IN  (IF prefixed \in DOMAIN ix.by_name
            THEN Matched(ix.by_name[prefixed], "exact_prefixed")
            ELSE <<>>) \o MatchPrefixed(ix, reference, k + 1)

\* _match_exact: the files of that name, else those of the name behind a
\* prefix Q1. to Q5.
MatchExact(ix, reference) ==
  LET ref_lower == Lower(reference)
      direct == IF ref_lower \in DOMAIN ix.by_name
                THEN Matched(ix.by_name[ref_lower], "exact")
                ELSE <<>>
  IN  IF direct # <<>> THEN direct ELSE MatchPrefixed(ix, reference, 1)

\* any(kw in s for kw in keywords)
AnyKeywordIn(keywords, s) ==
  \E i \in 1..Len(keywords) : IsInfix(keywords[i], s)

\* all(kw in s for kw in keywords)
AllKeywordsIn(keywords, s) ==
  \A i \in 1..Len(keywords) : IsInfix(keywords[i], s)

\* the first folder, in the order of the index, whose name holds every keyword
RECURSIVE MatchFolderKeyword(_, _, _)
MatchFolderKeyword(ix, keywords, k) ==
  IF k > Len(ix.by_folder) THEN <<>>
  ELSE IF AllKeywordsIn(keywords, Lower(ix.by_folder[k].folder_name))
            /\ ix.by_folder[k].paths # <<>>
       THEN Matched(ix.by_folder[k].paths, "folder_keyword")
       ELSE MatchFolderKeyword(ix, keywords, k + 1)

\* every folder whose normalized name holds the normalized reference, or is
\* held by it
RECURSIVE MatchFolderNormalized(_, _, _)
MatchFolderNormalized(ix, ref_normalized, k) ==
  IF k > Len(ix.by_folder) THEN <<>>
  ELSE LET folder_normalized == Normalized(Lower(ix.by_folder[k].folder_name))
       IN  (IF IsInfix(ref_normalized, folder_normalized)
                 \/ IsInfix(folder_normalized, ref_normalized)
            THEN Matched(ix.by_folder[k].paths, "folder_normalized")
            ELSE <<>>) \o MatchFolderNormalized(ix, ref_normalized, k + 1)

\* _match_folder
MatchFolder(ix, reference) ==
  LET ref_keywords == Findall(Lower(reference))
      byKeyword == MatchFolderKeyword(ix, ref_keywords, 1)
  IN  IF ref_keywords = <<>> THEN <<>>
      ELSE IF byKeyword # <<>> THEN byKeyword
      ELSE MatchFolderNormalized(ix, Normalized(Lower(reference)), 1)

\* _match_pattern: the indexed files whose path holds every keyword
MatchPattern(ix, reference) ==
  LET keywords == Findall(Lower(reference))
      Fits(f) == AllKeywordsIn(keywords, Lower(PathStr(f)))
  IN  IF keywords = <<>> THEN <<>>
      ELSE Matched(SelectSeq(ix.by_pattern, Fits), "pattern")

\* _resolve_single: the first strategy that finds something
ResolveSingleAnyStrategy(ix, reference) ==
  MatchExact(ix, reference) \o MatchFolder(ix, reference) \o MatchPattern(ix, reference)

ResolveSingle(ix, reference) ==
  IF MatchExact(ix, reference) # <<>> THEN MatchExact(ix, reference)
  ELSE IF MatchFolder(ix, reference) # <<>> THEN MatchFolder(ix, reference)
  ELSE MatchPattern(ix, reference)

\* the references of a db_list that are resolved: split, stripped, not empty
References(db) ==
  LET Given(r) == r # <<>>
      parts == SplitCommas(db)
  IN  SelectSeq([i \in 1..Len(parts) |-> StripRef(parts[i])], Given)

RECURSIVE ResolveAll(_, _)
ResolveAll(ix, references) ==
  IF references = <<>> THEN <<>>
  ELSE ResolveSingle(ix, Head(references)) \o ResolveAll(ix, Tail(references))

\* the results whose path was not seen before
RECURSIVE UniqueResults(_, _)
UniqueResults(results, seen) ==
  IF results = <<>> THEN <<>>
  ELSE IF Head(results).path \in seen THEN UniqueResults(Tail(results), seen)
  ELSE <<Head(results)>> \o UniqueResults(Tail(results), seen \cup {Head(results).path})

\* resolve
ResolveKeepingDuplicates(ix, db) ==
  IF StripRef(db) = <<>> THEN <<>>
  ELSE ResolveAll(ix, References(db))

Resolve(ix, db) ==
  IF StripRef(db) = <<>> THEN <<>>
  ELSE UniqueResults(ResolveAll(ix, References(db)), {})

\* FileResolver(data_dir): the index is built from the files on disk
NewFileResolver ==
  /\ res_op = "none"
  /\ file_index' = BuildFileIndex(disk)
  /\ scanned' = disk
  /\ res_op' = "init"
  /\ UNCHANGED <<disk, db_list, resolved>>
  /\ UNCHANGED resolver_frame

\* resolve(db_list), with an index rebuilt at every call
ResolveCallRescanning ==
  /\ res_op # "none"
  /\ file_index' = BuildFileIndex(disk)
  /\ resolved' = Resolve(file_index', db_list)
  /\ res_op' = "resolve"
  /\ UNCHANGED <<disk, db_list, scanned>>
  /\ UNCHANGED resolver_frame

\* resolve(db_list)
ResolveCall ==
  /\ res_op # "none"
  /\ resolved' = Resolve(file_index, db_list)
  /\ res_op' = "resolve"
  /\ UNCHANGED <<disk, file_index, db_list, scanned>>
  /\ UNCHANGED resolver_frame

\* refresh_index()
RefreshIndex ==
  /\ res_op # "none"
  /\ file_index' = BuildFileIndex(disk)
  /\ scanned' = disk
  /\ res_op' = "refresh"
  /\ UNCHANGED <<disk, db_list, resolved>>
  /\ UNCHANGED resolver_frame

\* a file is added under data_dir, or removed from it, by something else
DiskChange(f) ==
  /\ res_op # "none"
  /\ disk' = IF f \in disk THEN disk \ {f} ELSE disk \cup {f}
  /\ res_op' = "disk"
  /\ UNCHANGED <<file_index, db_list, resolved, scanned>>
  /\ UNCHANGED resolver_frame

\* ------------------------------------------------------------- DataLoader
\* A file is its first line (the header of a delimited file) followed by
\* csv_lines, each a data row or a blank line.
LineKinds == {"row", "blank"}

DataRows(lines) == Cardinality({i \in 1..Len(lines) : lines[i] = "row"})

Smaller(a, b) == IF a < b THEN a ELSE b

\* len(df) after pd.read_csv(file_path, nrows=n_rows): the first n_rows data
\* rows, blank lines being skipped (data_utils.py 403-412)
LoadedRows(lines, n_rows) == Smaller(DataRows(lines), n_rows)

\* _count_total_rows for csv, tsv and text: sum(1 for _ in f) - 1, the lines
\* of the file but the header (data_utils.py 713-723)
CountTotalRows(lines) == (Len(lines) + 1) - 1

\* load_file with sample=True and n_rows=None: n_rows = self.max_sample_rows,
\* then the metadata (data_utils.py 365-394)
\* len(df) after _load_text: a file whose first line holds a tab or a comma
\* is read by pd.read_csv; any other is loaded as one row per line, the first
\* n_rows lines, every line when n_rows is 0 (data_utils.py 446-500)
LoadText(first, lines, n_rows) ==
  IF first = "delimited" THEN LoadedRows(lines, n_rows)
  ELSE IF n_rows # 0 THEN Smaller(Len(lines) + 1, n_rows)
  ELSE Len(lines) + 1

LoadFile(format, first, lines, cap) ==
  LET loaded_rows == IF format = "text" THEN LoadText(first, lines, cap)
                     ELSE LoadedRows(lines, cap)
      total_rows == CountTotalRows(lines)
  IN  [total_rows |-> total_rows,
       loaded_rows |-> loaded_rows,
       is_sampled |-> IF total_rows # 0 THEN loaded_rows < total_rows ELSE FALSE]

NotLoaded == [total_rows |-> -1, loaded_rows |-> -1, is_sampled |-> FALSE]

DoLoadFile ==
  /\ metadata = NotLoaded
  /\ metadata' = LoadFile(format_type, first_line, csv_lines, max_sample_rows)
  /\ UNCHANGED <<format_type, first_line, csv_lines, max_sample_rows>>
  /\ UNCHANGED loader_frame

\* ------------------------------------------------- status() and the router
\* Two threads, each writing up to MaxPrints lines: status(message), which
\* is print(line, file=sys.stderr) under _status_lock, or print(text) with
\* sys.stdout the router. print writes the text and the line end with two
\* calls of write.
OutThreads == 1..2

\* status(): with _status_lock (main.py 157)
StatusAcquire(t) ==
  /\ out_pc[t] = "idle"
  /\ out_count[t] < MaxPrints
  /\ status_lock = 0
  /\ status_lock' = t
  /\ out_pc' = [out_pc EXCEPT ![t] = "status_text"]
  /\ UNCHANGED <<out_count, stdout_lock, suppress, stderr_text, stdout_text>>
  /\ UNCHANGED output_frame

\* print(line, file=sys.stderr, flush=True): the line (main.py 158)
StatusWriteText(t) ==
  /\ out_pc[t] = "status_text"
  /\ stderr_text' = Append(stderr_text, <<t, "text">>)
  /\ out_pc' = [out_pc EXCEPT ![t] = "status_end"]
  /\ UNCHANGED <<out_count, status_lock, stdout_lock, suppress, stdout_text>>
  /\ UNCHANGED output_frame

\* the line end, then the lock is released
StatusWriteEnd(t) ==
  /\ out_pc[t] = "status_end"
  /\ stderr_text' = Append(stderr_text, <<t, "end">>)
  /\ status_lock' = 0
  /\ out_pc' = [out_pc EXCEPT ![t] = "idle"]
  /\ out_count' = [out_count EXCEPT ![t] = @ + 1]
  /\ UNCHANGED <<stdout_lock, suppress, stdout_text>>
  /\ UNCHANGED output_frame

\* print(text) of an agent: sys.stdout.write(text) is about to be called
PrintCall(t) ==
  /\ out_pc[t] = "idle"
  /\ out_count[t] < MaxPrints
  /\ out_pc' = [out_pc EXCEPT ![t] = "print_text"]
  /\ UNCHANGED <<out_count, status_lock, stdout_lock, suppress, stderr_text, stdout_text>>
  /\ UNCHANGED output_frame

\* what print does after a write has returned
AfterWrite(t) ==
  IF out_pc[t] \in {"print_text", "print_text_locked"}
    THEN /\ out_pc' = [out_pc EXCEPT ![t] = "print_end"]
         /\ UNCHANGED out_count
    ELSE /\ out_pc' = [out_pc EXCEPT ![t] = "idle"]
         /\ out_count' = [out_count EXCEPT ![t] = @ + 1]

\* _StdoutRouter.write: discarded under the suppress flag, else the lock is
\* taken (main.py 103-107)
RouterWrite(t) ==
  /\ out_pc[t] \in {"print_text", "print_end"}
  /\ IF suppress[t]
       THEN /\ AfterWrite(t)
            /\ UNCHANGED <<stdout_lock, stdout_text>>
       ELSE /\ stdout_lock = 0
            /\ stdout_lock' = t
            /\ out_pc' = [out_pc EXCEPT ![t] = @ \o "_locked"]
            /\ UNCHANGED <<out_count, stdout_text>>
  /\ UNCHANGED <<status_lock, suppress, stderr_text>>
  /\ UNCHANGED output_frame

\* return _ORIGINAL_STDOUT.write(s), and the lock is released (main.py 106-107)
RouterForward(t) ==
  /\ out_pc[t] \in {"print_text_locked", "print_end_locked"}
  /\ stdout_text' = Append(stdout_text,
                           <<t, IF out_pc[t] = "print_text_locked" THEN "text" ELSE "end">>)
  /\ stdout_lock' = 0
  /\ AfterWrite(t)
  /\ UNCHANGED <<status_lock, suppress, stderr_text>>
  /\ UNCHANGED output_frame

\* ------------------------------------------------------------ CodeExecutor
\* What a piece of generated code does when exec runs it: it assigns result,
\* it runs to completion without touching result, it deletes result, or it
\* raises.
CodeKinds == {"assigns", "silent", "deletes", "raises_key", "raises_type"}

\* the model's answer to a request for code: code of some kind, or nothing
\* usable (the call failed or the answer was empty)
Generated == CodeKinds \cup {"none"}

max_retries == 3

EmptyDict == [k \in {} |-> ""]

\* the dictionary well-behaved generated code assigns to result
Analysis == [data_type |-> "expression", data_summary |-> "tpm matrix"]

NotAnalysed == [not_analysed |-> TRUE]

NoError == [type |-> "", msg |-> ""]

\* _execute_code_safely: the namespace after exec, or the exception raised.
\* The namespace starts with result bound to an empty dictionary.
ExecuteCodeSafely(kind) ==
  LET allowed_scope == [names |-> {"pd", "np", "df", "result", "file_path", "file_name", "Path"},
                        result |-> EmptyDict, raised |-> NoError]
  IN  CASE kind = "assigns" -> [allowed_scope EXCEPT !.result = Analysis]
        [] kind = "silent" -> allowed_scope
        [] kind = "deletes" -> [allowed_scope EXCEPT !.names = @ \ {"result"}]
        [] kind = "raises_key" ->
             [allowed_scope EXCEPT !.raised = [type |-> "KeyError", msg |-> "'gene'"]]
        [] kind = "raises_type" ->
             [allowed_scope EXCEPT !.raised = [type |-> "TypeError", msg |-> "unsupported operand"]]

\* the exception the try block of _execute_and_fix ends with, NoError if none
Raised(local_scope) ==
  IF local_scope.raised # NoError THEN local_scope.raised
  ELSE IF "result" \in local_scope.names THEN NoError
  ELSE [type |-> "ValueError", msg |-> "Variable 'result' not found in executed code."]

\* error_msg = f"{type(e).__name__}: {str(e)}"
ErrorMsg(e) == e.type \o ": " \o e.msg

\* if attempt <= max_retries
MayFixOnceMore(a) == a <= max_retries

\* if attempt < max_retries
MayFix(a) == a < max_retries

\* analyze_data up to the first execution: the code is generated
AnalyzeData ==
  /\ ex_pc = "idle"
  /\ \E g \in Generated :
       IF g = "none"
         THEN /\ llm_analysis' = [error |-> "Failed to generate code"]
              /\ ex_pc' = "done"
              /\ UNCHANGED <<code, code_kind>>
         ELSE /\ code' = 1
              /\ code_kind' = (1 :> g)
              /\ ex_pc' = "execute"
              /\ UNCHANGED llm_analysis
  /\ UNCHANGED <<fix_attempt, executions, exec_failures, fix_requests>>
  /\ UNCHANGED executor_frame

\* one pass of the loop of _execute_and_fix up to the fix request
ExecuteCode ==
  /\ ex_pc = "execute"
  /\ LET local_scope == ExecuteCodeSafely(code_kind[code])
         e == Raised(local_scope)
     IN  IF e = NoError
           THEN /\ llm_analysis' = local_scope.result
                /\ executions' = Append(executions, "ok")
                /\ ex_pc' = "done"
                /\ UNCHANGED exec_failures
           ELSE /\ executions' = Append(executions, "failed")
                /\ exec_failures' = Append(exec_failures, [code |-> code, error |-> e])
                /\ IF MayFix(fix_attempt)
                     THEN /\ ex_pc' = "fix"
                          /\ UNCHANGED llm_analysis
                     ELSE /\ llm_analysis' = [error |-> e.msg, code |-> code]
                          /\ ex_pc' = "done"
  /\ UNCHANGED <<code, code_kind, fix_attempt, fix_requests>>
  /\ UNCHANGED executor_frame

\* _generate_fix_code and the rest of the pass
GenerateFixCode ==
  /\ ex_pc = "fix"
  /\ LET e == exec_failures[Len(exec_failures)].error
     IN  fix_requests' = Append(fix_requests,
                                [previous_code |-> code, error_message |-> ErrorMsg(e)])
  /\ \E g \in Generated :
       IF g = "none"
         THEN /\ code' = 0
              /\ llm_analysis' = [error |-> "Execution failed after retries"]
              /\ ex_pc' = "done"
              /\ UNCHANGED <<code_kind, fix_attempt>>
         ELSE /\ code' = code + 1
              /\ code_kind' = (code + 1 :> g) @@ code_kind
              /\ fix_attempt' = fix_attempt + 1
              /\ ex_pc' = "execute"
              /\ UNCHANGED llm_analysis
  /\ UNCHANGED <<executions, exec_failures>>
  /\ UNCHANGED executor_frame

\* ------------------------------------------------- directory fallback scan
\* A file is [loc, name]: loc is the list of directory names from the
\* parent of the data directory down to the file, name the atoms of the
\* file name, the extensions last. A directory name is a list of atoms too.
excluded_dirs ==
  {<<"01_brain">>, <<"02_search">>, <<"03_data_analysis">>, <<"04_blue_draft">>,
   <<"05_red_critique">>, <<"06_bluex_revision">>, <<"07_red_review">>, <<"08_answer">>}

supported_extensions ==
  {".csv", ".tsv", ".txt", ".tab", ".xlsx", ".xls", ".parquet", ".md", ".markdown",
   ".fa", ".fasta", ".fna", ".faa", ".ffn", ".frn", ".fq", ".fastq",
   ".gz", ".bam", ".sam", ".vcf", ".bed", ".pod5"}

\* the atoms that are an extension
SuffixAtoms == supported_extensions \cup {".json", ".TXT", ".bak"}

\* Path.suffix
Suffix(name) ==
  IF Len(name) > 1 /\ name[Len(name)] \in SuffixAtoms THEN name[Len(name)] ELSE ""

\* str.startswith for a prefix that is one atom
StartsWith(name, prefix) == Len(name) > 0 /\ name[1] = prefix

\* name.endswith('.fastq.gz') or name.endswith('.fq.gz')
EndsWithFastqGz(name) ==
  /\ Len(name) > 1
  /\ name[Len(name)] = ".gz"
  /\ name[Len(name) - 1] \in {".fastq", ".fq"}

\* a check that keeps the problem and answer text files
IsValidDataFileKeepingTexts(file_name) ==
  LET name == Lower(file_name)
      suffix == Suffix(name)
  IN  suffix \in supported_extensions \/ EndsWithFastqGz(name)

\* _is_valid_data_file
IsValidDataFile(file_name) ==
  LET name == Lower(file_name)
      suffix == Suffix(name)
  IN  IF suffix = ".txt" /\ (StartsWith(name, "problem") \/ StartsWith(name, "answer"))
        THEN FALSE
        ELSE suffix \in supported_extensions \/ EndsWithFastqGz(name)

\* item.name in excluded_dirs or item.name.startswith('temp_')
SkippedDir(d) == d \in excluded_dirs \/ StartsWith(d, "temp_")

\* _scan_directory_for_data_files: the valid files of the directory at path
\* root and of its subdirectories that are not skipped, one level down
ScanDirectoryForDataFiles(files, root) ==
  {f \in files :
     /\ IsValidDataFile(f.name)
     /\ \/ f.loc = root
        \/ /\ Len(f.loc) = Len(root) + 1
           /\ SubSeq(f.loc, 1, Len(root)) = root
           /\ ~SkippedDir(f.loc[Len(f.loc)])}

NotScanned == {[loc |-> <<>>, name |-> <<"not scanned">>]}

\* _get_all_data_files_in_directory: the data directory, then its parent
\* when the data directory yields nothing
AllDataFilesInDirectory(files, d) ==
  LET here == ScanDirectoryForDataFiles(files, <<d>>)
  IN  IF here = {}
        THEN [data_files |-> ScanDirectoryForDataFiles(files, <<>>), roots |-> {<<d>>, <<>>}]
        ELSE [data_files |-> here, roots |-> {<<d>>}]

GetAllDataFilesInDirectory ==
  /\ data_files = NotScanned
  /\ data_files' = AllDataFilesInDirectory(tree, directory).data_files
  /\ scan_roots' = AllDataFilesInDirectory(tree, directory).roots
  /\ UNCHANGED <<tree, directory>>
  /\ UNCHANGED scan_frame

\* ------------------------------------------------ DataAnalystAgent.analyze
\* analyze for an agent whose FileResolver was built over disk, with the
\* defaults use_planner = True, use_summarizer = True and output_format =
\* 'natural_language'. The analyses the generated code returns name no
\* integration strategy.
NoPlan == [none |-> TRUE]

NotReturned == [type |-> "none", value |-> EmptyDict]

\* dict.get(key, default)
Get(d, key, default) == IF key \in DOMAIN d THEN d[key] ELSE default

\* the sub-problems that are collected from, whatever their flag
AllSubProblems(sps) == sps

\* if db_flag == 1: active_sub_problems.append(sp)
ActiveSubProblems(sps) ==
  LET Active(sp) == sp.DB_flag = 1
  IN  SelectSeq(sps, Active)

\* all_db_refs: the references of the active sub-problems
AllDbRefs(active) ==
  UNION {{References(active[i].DB_list)[k] : k \in 1..Len(References(active[i].DB_list))} :
           i \in 1..Len(active)}

\* the order of str on the first atoms of the references
FirstAtomOrder == <<"Q1", "genelist", "missing", "tpm">>

RefRank(r) == CHOOSE i \in 1..Len(FirstAtomOrder) : FirstAtomOrder[i] = r[1]

\* sorted(all_db_refs)
RECURSIVE SortedRefs(_)
SortedRefs(refs) ==
  IF refs = {} THEN <<>>
  ELSE LET first == CHOOSE r \in refs : \A q \in refs : RefRank(r) <= RefRank(q)
       IN  <<first>> \o SortedRefs(refs \ {first})

\* ', '.join(...)
RECURSIVE CommaJoin(_)
CommaJoin(l) ==
  IF l = <<>> THEN <<>>
  ELSE IF Len(l) = 1 THEN Head(l)
  ELSE Head(l) \o <<",", " ">> \o CommaJoin(Tail(l))

\* the name of a file of the resolver's universe with every extension as one
\* atom, as the fallback scan reads names
RECURSIVE ScanName(_)
ScanName(name) ==
  IF Len(name) < 2 THEN name
  ELSE IF name[1] = "." THEN <<"." \o name[2]>> \o ScanName(SubSeq(name, 3, Len(name)))
  ELSE <<name[1]>> \o ScanName(Tail(name))

TreeFile(f) == [loc |-> <<DataDir, Universe[f].folder>>, name |-> ScanName(Universe[f].name)]

\* the fallback: the data files under data_dir
FallbackFiles(dk) ==
  LET found == AllDataFilesInDirectory({TreeFile(f) : f \in dk}, DataDir).data_files
      Found(f) == f \in dk /\ TreeFile(f) \in found
  IN  [i \in 1..Len(SelectSeq(WalkOrder, Found)) |->
         [path |-> SelectSeq(WalkOrder, Found)[i],
          name |-> Universe[SelectSeq(WalkOrder, Found)[i]].name,
          match_type |-> "directory_fallback"]]

\* resolved_files: what the resolver finds for the combined list, else the
\* fallback
ResolvedFiles(ix, dk, refs) ==
  LET found == Resolve(ix, CommaJoin(SortedRefs(refs)))
  IN  IF found # <<>> THEN found ELSE FallbackFiles(dk)

Status(status, reason) ==
  [type |-> "dict", value |-> [status |-> status, reason |-> reason, problem_id |-> "unknown"]]

\* analyze up to Stage 1 (lines 219-304)
AnalyzeCollect ==
  /\ an_pc = "start"
  /\ LET active == ActiveSubProblems(sub_problems)
         all_db_refs == AllDbRefs(active)
         found == ResolvedFiles(file_index, disk, all_db_refs)
     IN  IF active = <<>>
           THEN /\ an_output' = Status("skipped", "No sub_problem with DB_flag=1")
                /\ an_pc' = "returned"
                /\ UNCHANGED resolved_files
         ELSE IF all_db_refs = {}
           THEN /\ an_output' = Status("error", "DB_list is empty")
                /\ an_pc' = "returned"
                /\ UNCHANGED resolved_files
         ELSE IF found = <<>>
           THEN /\ an_output' = Status("error", "Could not resolve files from DB_list and no data files found in directory")
                /\ an_pc' = "returned"
                /\ UNCHANGED resolved_files
         ELSE /\ resolved_files' = found
              /\ an_pc' = "planner"
              /\ UNCHANGED an_output
  /\ UNCHANGED <<sub_problems, analysis_plan, resolved_files_ordered, file_analyses,
                 executor_errors, model_calls, summarizer_end>>
  /\ UNCHANGED analyze_frame

\* What the Planner's model answers: the call fails, a text that is no JSON,
\* or a JSON object with a file_priority and a code_flow that is a list or
\* null. An entry of file_priority is a string or an object.
StrEntry(name) == [kind |-> "str", value |-> name]

DictEntry == [kind |-> "dict", value |-> <<>>]

\* PlannerLLM.create_plan and _parse_plan
CreatePlan(response) ==
  IF response.kind = "fails"
    THEN [file_priority |-> <<>>,
          analysis_approach |-> "Default sequential processing due to planner failure",
          code_flow |-> "list"]
  ELSE IF response.kind = "text"
    THEN [file_priority |-> <<>>, analysis_approach |-> "response", code_flow |-> "list"]
  ELSE [file_priority |-> response.file_priority, analysis_approach |-> "",
        code_flow |-> response.code_flow]

\* Stage 1 of analyze: len(analysis_plan.code_flow) in the try block raises
\* for a null code_flow, and the plan is dropped (lines 307-331)
PlannerStagePlan(response) ==
  LET plan == CreatePlan(response)
  IN  IF plan.code_flow = "null" THEN NoPlan ELSE plan

\* a dict can be no key of file_order
Hashable(entry) == entry.kind = "str"

\* file_order.get(f['name'], len(file_order)), file_order being
\* {name: idx for idx, name in enumerate(file_priority)}
SortKey(file_priority, name) ==
  LET at == {i \in 1..Len(file_priority) : file_priority[i].value = name}
      names == {file_priority[i].value : i \in 1..Len(file_priority)}
  IN  IF at = {} THEN Cardinality(names)
      ELSE (CHOOSE i \in at : \A j \in at : j <= i) - 1

\* sorted(resolved_files, key=...): stable
RECURSIVE SortedFrom(_, _, _)
SortedFrom(files, file_priority, k) ==
  IF k > Len(file_priority) THEN <<>>
  ELSE LET HasKey(f) == SortKey(file_priority, f.name) = k
       IN  SelectSeq(files, HasKey) \o SortedFrom(files, file_priority, k + 1)

\* resolved_files_ordered (lines 343-353)
FileOrder(files, plan) ==
  IF plan # NoPlan /\ plan.file_priority # <<>>
    THEN SortedFrom(files, plan.file_priority, 0)
    ELSE files

\* Stage 1 and the ordering of the files
PlannerStage(response) ==
  /\ an_pc = "planner"
  /\ model_calls' = [model_calls EXCEPT !.planner = @ + 1]
  /\ LET plan == PlannerStagePlan(response)
     IN  /\ analysis_plan' = plan
         /\ IF plan # NoPlan /\ \E i \in 1..Len(plan.file_priority) : ~Hashable(plan.file_priority[i])
              THEN /\ an_pc' = "raised"
                   /\ UNCHANGED resolved_files_ordered
              ELSE /\ an_pc' = "files"
                   /\ resolved_files_ordered' = FileOrder(resolved_files, plan)
  /\ UNCHANGED <<sub_problems, resolved_files, file_analyses, executor_errors,
                 summarizer_end, an_output>>
  /\ UNCHANGED analyze_frame

\* what analyze_data can return: the analysis the code assigned, the empty
\* dictionary, and the three error dictionaries
ExecutorReturns ==
  {Analysis, EmptyDict,
   [error |-> "'gene'", code |-> max_retries + 1],
   [error |-> "Execution failed after retries"],
   [error |-> "Failed to generate code"]}

\* _analyze_single_file after the file is loaded: the compact result
SingleFileResult(file_info, returned) ==
  [file |-> file_info.name,
   type |-> Get(returned, "data_type", "unknown"),
   keys |-> Get(returned, "key_columns", <<>>),
   summary |-> Get(returned, "data_summary", "")]

\* the entry for a file whose analysis raised
ErrorEntry(file_info, e) ==
  [file_path |-> file_info.path, file_name |-> file_info.name, status |-> "error", error |-> e]

\* one file of Stage 2 (lines 356-378): load_file raises, or the file is
\* loaded and analyze_data returns
AnalyzeSingleFile ==
  /\ an_pc = "files"
  /\ Len(file_analyses) < Len(resolved_files_ordered)
  /\ LET file_info == resolved_files_ordered[Len(file_analyses) + 1]
     IN  \/ /\ file_analyses' = Append(file_analyses, ErrorEntry(file_info, "load failed"))
            /\ UNCHANGED <<executor_errors, model_calls>>
         \/ \E returned \in ExecutorReturns :
              /\ file_analyses' = Append(file_analyses, SingleFileResult(file_info, returned))
              /\ executor_errors' =
                   IF "error" \in DOMAIN returned
                     THEN executor_errors \cup {Len(file_analyses) + 1}
                     ELSE executor_errors
              /\ model_calls' = [model_calls EXCEPT !.executor = @ + 1]
  /\ UNCHANGED <<sub_problems, an_pc, resolved_files, analysis_plan, resolved_files_ordered,
                 summarizer_end, an_output>>
  /\ UNCHANGED analyze_frame

\* _build_output
BuildOutput(analyses) ==
  LET Valid(a) == "error" \notin DOMAIN a
      Failed(a) == "error" \in DOMAIN a
      valid_analyses == SelectSeq(analyses, Valid)
      error_analyses == SelectSeq(analyses, Failed)
  IN  IF valid_analyses = <<>>
        THEN [error |-> IF error_analyses # <<>> THEN error_analyses[1].error
                        ELSE "No files analyzed"]
      ELSE IF Len(valid_analyses) = 1 THEN valid_analyses[1]
      ELSE [files |-> valid_analyses]

\* _create_fallback_summary
CreateFallbackSummary(results) ==
  LET files_info == IF "files" \in DOMAIN results THEN results.files
                    ELSE IF "file" \in DOMAIN results THEN <<results>>
                    ELSE <<>>
  IN  [title |-> "# Data Analysis Summary (Fallback)",
       files |-> [i \in 1..Len(files_info) |->
                    [file |-> Get(files_info[i], "file", "unknown"),
                     summary |-> Get(files_info[i], "summary", "No summary")]],
       note |-> "Note: Detailed LLM summary generation failed."]

\* How summarize can end: the model's text; the call fails; _build_prompt
\* raises before the call (json.dumps meets a value that is not JSON, or
\* ', '.join meets focus_areas that is no list of strings).
SummarizerEnds == {"summary", "call_fails", "prompt_raises"}

\* summarize with no try around the call
SummarizeUncaught(results, end) ==
  IF end = "summary"
    THEN [raised |-> FALSE, calls |-> 1, summary |-> [llm |-> "summary"]]
    ELSE [raised |-> TRUE, calls |-> IF end = "call_fails" THEN 1 ELSE 0, summary |-> EmptyDict]

\* SummarizerLLM.summarize
Summarize(results, end) ==
  IF end = "prompt_raises"
    THEN [raised |-> TRUE, calls |-> 0, summary |-> EmptyDict]
  ELSE IF end = "call_fails"
    THEN [raised |-> FALSE, calls |-> 1, summary |-> CreateFallbackSummary(results)]
  ELSE [raised |-> FALSE, calls |-> 1, summary |-> [llm |-> "summary"]]

\* the end of analyze (lines 380-437): the output is built and summarized
SummarizerStage(end) ==
  /\ an_pc = "files"
  /\ Len(file_analyses) = Len(resolved_files_ordered)
  /\ LET execution_results == BuildOutput(file_analyses)
         s == Summarize(execution_results, end)
     IN  /\ an_output' = IF s.raised THEN [type |-> "dict", value |-> execution_results]
                         ELSE [type |-> "str", value |-> s.summary]
         /\ model_calls' = [model_calls EXCEPT !.summarizer = @ + s.calls]
  /\ summarizer_end' = end
  /\ an_pc' = "returned"
  /\ UNCHANGED <<sub_problems, resolved_files, analysis_plan, resolved_files_ordered,
                 file_analyses, executor_errors>>
  /\ UNCHANGED analyze_frame

\* ------------------------------------------- the context variables of a job
\* _suppress_stdout_flag and _current_problem are ContextVars: every thread
\* runs in a context of its own, get() reads the value of the calling thread's
\* context (the default when the thread has set none), set() returns a token
\* holding the previous value and reset(token) puts it back.
CtxThreads == 1..2

CtxJobs == 1..MaxJobs

\* os.path.splitext(file_name)[0] of job j
CtxStem(j) == "problem_" \o Digits[j]

NoWrite == [thread |-> 0, inside |-> FALSE, dropped |-> FALSE, beside |-> FALSE]

NoLine == [thread |-> 0, job |-> 0, prefix |-> ""]

CtxGet(store, t) == store[t]

CtxSet(store, t, value) == [store EXCEPT ![t] = value]

CtxReset(store, t, token) == [store EXCEPT ![t] = token.old]

\* a flag kept in one module-level variable, seen by every thread
SuppressFlagGetOfAnyThread(store, t) == \E u \in CtxThreads : store[u]

\* _suppress_stdout_flag.get() in _StdoutRouter.write (main.py 104)
SuppressFlagGet(store, t) == CtxGet(store, t)

\* run_pipeline is entered: token = _current_problem.set(stem) (main.py 176-177)
CtxRunPipelineEnter(t) ==
  /\ ctx_pc[t] = "free"
  /\ ctx_next \in CtxJobs
  /\ ctx_job' = [ctx_job EXCEPT ![t] = ctx_next]
  /\ ctx_next' = ctx_next + 1
  /\ ctx_tokens' = [ctx_tokens EXCEPT ![t] =
                      <<[var |-> "problem", old |-> CtxGet(ctx_problem, t)]>> \o @]
  /\ ctx_problem' = CtxSet(ctx_problem, t, CtxStem(ctx_next))
  /\ ctx_pc' = [ctx_pc EXCEPT ![t] = "pipeline"]
  /\ ctx_blocks' = [ctx_blocks EXCEPT ![t] = 0]
  /\ UNCHANGED <<ctx_verbose, ctx_flag, ctx_done, ctx_write, ctx_line>>
  /\ UNCHANGED context_frame

\* with suppress_stdout(not verbose): the flag is set unless the block is
\* entered with enabled false (main.py 136-140)
CtxSuppressEnter(t) ==
  /\ ctx_pc[t] = "pipeline"
  /\ ctx_blocks[t] < MaxBlocks
  /\ ctx_blocks' = [ctx_blocks EXCEPT ![t] = @ + 1]
  /\ IF ~ctx_verbose
       THEN /\ ctx_tokens' = [ctx_tokens EXCEPT ![t] =
                                <<[var |-> "flag", old |-> CtxGet(ctx_flag, t)]>> \o @]
            /\ ctx_flag' = CtxSet(ctx_flag, t, TRUE)
            /\ ctx_pc' = [ctx_pc EXCEPT ![t] = "block"]
       ELSE /\ ctx_pc' = [ctx_pc EXCEPT ![t] = "block_plain"]
            /\ UNCHANGED <<ctx_tokens, ctx_flag>>
  /\ UNCHANGED <<ctx_verbose, ctx_problem, ctx_job, ctx_next, ctx_done, ctx_write, ctx_line>>
  /\ UNCHANGED context_frame

\* the body of the block returns or raises: finally the flag is reset
\* (main.py 141-144)
CtxSuppressExit(t, raised) ==
  /\ ctx_pc[t] \in {"block", "block_plain"}
  /\ IF ctx_pc[t] = "block"
       THEN /\ ctx_flag' = CtxReset(ctx_flag, t, Head(ctx_tokens[t]))
            /\ ctx_tokens' = [ctx_tokens EXCEPT ![t] = Tail(@)]
       ELSE UNCHANGED <<ctx_flag, ctx_tokens>>
  /\ ctx_pc' = [ctx_pc EXCEPT ![t] = IF raised THEN "raising" ELSE "pipeline"]
  /\ UNCHANGED <<ctx_verbose, ctx_problem, ctx_job, ctx_next, ctx_blocks, ctx_done, ctx_write,
                 ctx_line>>
  /\ UNCHANGED context_frame

\* a statement of run_pipeline outside every suppress_stdout block raises
CtxRaise(t) ==
  /\ ctx_pc[t] = "pipeline"
  /\ ctx_pc' = [ctx_pc EXCEPT ![t] = "raising"]
  /\ UNCHANGED <<ctx_verbose, ctx_flag, ctx_problem, ctx_tokens, ctx_job, ctx_next, ctx_blocks,
                 ctx_done, ctx_write, ctx_line>>
  /\ UNCHANGED context_frame

\* run_pipeline ends, by its last statement or through except Exception:
\* finally _current_problem.reset(token) (main.py 543-548)
CtxRunPipelineExit(t) ==
  /\ ctx_pc[t] \in {"pipeline", "raising"}
  /\ ctx_problem' = CtxReset(ctx_problem, t, Head(ctx_tokens[t]))
  /\ ctx_tokens' = [ctx_tokens EXCEPT ![t] = Tail(@)]
  /\ ctx_done' = [ctx_done EXCEPT ![t] = IF ctx_pc[t] = "raising" THEN "raised" ELSE "returned"]
  /\ ctx_pc' = [ctx_pc EXCEPT ![t] = "free"]
  /\ ctx_job' = [ctx_job EXCEPT ![t] = 0]
  /\ UNCHANGED <<ctx_verbose, ctx_flag, ctx_next, ctx_blocks, ctx_write, ctx_line>>
  /\ UNCHANGED context_frame

\* _StdoutRouter.write called by thread t: the text is discarded when the
\* flag reads true (main.py 103-107)
CtxRouterWrite(t) ==
  /\ ctx_write' = [thread |-> t, inside |-> ctx_pc[t] = "block",
                   dropped |-> SuppressFlagGet(ctx_flag, t),
                   beside |-> \E u \in CtxThreads \ {t} : ctx_pc[u] = "block"]
  /\ UNCHANGED <<ctx_verbose, ctx_flag, ctx_problem, ctx_tokens, ctx_pc, ctx_job, ctx_next,
                 ctx_blocks, ctx_done, ctx_line>>
  /\ UNCHANGED context_frame

\* status(message) called by thread t: the prefix is _current_problem.get()
\* (main.py 155-156)
CtxStatus(t) ==
  /\ ctx_line' = [thread |-> t, job |-> ctx_job[t], prefix |-> CtxGet(ctx_problem, t)]
  /\ UNCHANGED <<ctx_verbose, ctx_flag, ctx_problem, ctx_tokens, ctx_pc, ctx_job, ctx_next,
                 ctx_blocks, ctx_done, ctx_write>>
  /\ UNCHANGED context_frame

\* ---------------------------------------------------------- initial states
RECURSIVE SubsetsUpTo(_, _)
SubsetsUpTo(S, k) ==
  IF k = 0 THEN {{}}
  ELSE LET prev == SubsetsUpTo(S, k - 1)
       IN  prev \cup {T \cup {x} : T \in prev, x \in S}

\* a directory holding the problem files Q and the files of T, the files of
\* E being empty
DirWith(Q, T, E) ==
  [f \in Files |->
     IF f \in Q THEN "old"
     ELSE IF f \in E THEN "empty"
     ELSE IF f \in T THEN "old"
     ELSE "absent"]

\* the directories before any run, each holding its problem files only
FreshDirs(hm, st) ==
  [d \in Dirs |-> DirWith({ProblemName(st[p]) : p \in {q \in Problems : hm[q] = d}}, {}, {})]

\* directories with at most MaxPreexisting checkpoint files, at most one of
\* them empty
InitDirs(problem_id) ==
  UNION {{DirWith({ProblemName(problem_id)}, T, E) : E \in SubsetsUpTo(T, 1)} :
           T \in SubsetsUpTo(CompletionFiles(problem_id), MaxPreexisting)}

PipelineIdle ==
  /\ mainpc = "init"
  /\ max_workers = 0
  /\ failures = 0
  /\ collected = {}
  /\ reported = -1
  /\ run = 1
  /\ pc = [p \in Problems |-> "idle"]
  /\ ref = [p \in Problems |-> NoRefs]
  /\ sys_stdout = "router"
  /\ old_stdout = [p \in Problems |-> "unset"]
  /\ exec_outcome = [p \in Problems |-> "none"]
  /\ outcome = [p \in Problems |-> "none"]
  /\ escaped = [p \in Problems |-> FALSE]
  /\ started = [p \in Problems |-> 0]
  /\ invoked = [p \in Problems |-> <<>>]
  /\ requests = [p \in Problems |-> 0]
  /\ created = [p \in Problems |-> <<>>]
  /\ touched = [p \in Problems |-> {}]
  /\ handed = [p \in Problems |-> {}]
  /\ handedMissing = [p \in Problems |-> {}]
  /\ failedAt = [p \in Problems |-> "none"]
  /\ how = [p \in Problems |-> NoWhy]
  /\ prevOutcome = [p \in Problems |-> "none"]
  /\ prevFailedAt = [p \in Problems |-> "none"]
  /\ fs0 = fs

ResolverIdle ==
  /\ disk = {}
  /\ file_index = EmptyIndex
  /\ db_list = <<>>
  /\ resolved = <<>>
  /\ scanned = {}
  /\ res_op = "none"

LoaderIdle ==
  /\ format_type = "csv"
  /\ first_line = "delimited"
  /\ csv_lines = <<>>
  /\ max_sample_rows = 0
  /\ metadata = NotLoaded

OutputIdle ==
  /\ out_pc = [t \in OutThreads |-> "idle"]
  /\ out_count = [t \in OutThreads |-> 0]
  /\ status_lock = 0
  /\ stdout_lock = 0
  /\ suppress = [t \in OutThreads |-> TRUE]
  /\ stderr_text = <<>>
  /\ stdout_text = <<>>

ExecutorIdle ==
  /\ ex_pc = "idle"
  /\ code = 0
  /\ code_kind = <<>>
  /\ fix_attempt = 0
  /\ executions = <<>>
  /\ exec_failures = <<>>
  /\ fix_requests = <<>>
  /\ llm_analysis = NotAnalysed

ScanIdle ==
  /\ tree = {}
  /\ directory = <<"problem_", "1">>
  /\ scan_roots = {}
  /\ data_files = NotScanned

NoCalls == [planner |-> 0, executor |-> 0, summarizer |-> 0]

AnalyzeIdle ==
  /\ sub_problems = <<>>
  /\ an_pc = "off"
  /\ resolved_files = <<>>
  /\ analysis_plan = NoPlan
  /\ resolved_files_ordered = <<>>
  /\ file_analyses = <<>>
  /\ executor_errors = {}
  /\ model_calls = NoCalls
  /\ summarizer_end = "none"
  /\ an_output = NotReturned

ContextIdle ==
  /\ ctx_verbose = FALSE
  /\ ctx_flag = [t \in CtxThreads |-> FALSE]
  /\ ctx_problem = [t \in CtxThreads |-> ""]
  /\ ctx_tokens = [t \in CtxThreads |-> <<>>]
  /\ ctx_pc = [t \in CtxThreads |-> "free"]
  /\ ctx_job = [t \in CtxThreads |-> 0]
  /\ ctx_next = 1
  /\ ctx_blocks = [t \in CtxThreads |-> 0]
  /\ ctx_done = [t \in CtxThreads |-> "none"]
  /\ ctx_write = NoWrite
  /\ ctx_line = NoLine

AnalystIdle ==
  /\ AnalyzeIdle
  /\ ContextIdle
  /\ ResolverIdle
  /\ LoaderIdle
  /\ OutputIdle
  /\ ExecutorIdle
  /\ ScanIdle

RetryIdle ==
  /\ llm_resps = AllSame("ok")
  /\ llm_result = NotCalled
  /\ brain_result = NotAnalyzed
  /\ AnalystIdle

Nested == [p \in Problems |-> p]

NumberedStems == [p \in Problems |-> NumberedStem(p)]

\* One problem selected and run inline, main started up to MaxRuns times:
\* problem_1 in a directory with some checkpoint files, or a problem file
\* named problem_.txt in a fresh directory.
Init ==
  /\ RetryIdle
  /\ jobs = Discovered
  /\ cpu_count = 1
  /\ dummy = "absent"
  /\ env = [p \in Problems |-> "any"]
  /\ home = Nested
  /\ \/ /\ stem = NumberedStems
        /\ only = <<(<<Digits[1]>>)>>
        /\ fs \in {[FreshDirs(home, stem) EXCEPT ![1] = d] : d \in InitDirs(stem[1])}
     \/ /\ stem = [NumberedStems EXCEPT ![1] = BareStem]
        /\ only = <<BareStem>>
        /\ fs = FreshDirs(home, stem)
  /\ PipelineIdle

Next ==
  \/ MainStart
  \/ \E p \in Problems : RunPipeline(p)
  \/ InlineReturn
  \/ Rerun

Spec == Init /\ [][Next]_vars

\* A batch: every problem directory selected, run under the worker pool; for
\* each problem the remote model answers every request, or fails every
\* request of the Brain step, or every request of the BlueX step; the data
\* analysis of the first problem may run generated code.
BatchScenarios == {"ok", "Brain", "BlueX"}

BatchInit ==
  /\ RetryIdle
  /\ jobs = Discovered
  /\ cpu_count \in {1, NumProblems}
  /\ dummy = "absent"
  /\ env \in [Problems -> BatchScenarios]
               \cup {[p \in Problems |-> IF p = 1 THEN "code" ELSE "ok"]}
  /\ home = Nested
  /\ stem = NumberedStems
  /\ only = <<>>
  /\ fs = FreshDirs(home, stem)
  /\ PipelineIdle

BatchNext ==
  \/ MainStart
  \/ \E p \in Problems : WorkerTake(p)
  \/ \E p \in Problems : RunPipeline(p)
  \/ \E p \in Problems : Collect(p)
  \/ Summary

BatchSpec == BatchInit /\ [][BatchNext]_vars

\* A batch of the two problems selected by --only 1 2, the file of problem 2
\* lying in its own directory or beside the file of problem 1; every model
\* request is answered, and the data analysis of problem 1 may run generated
\* code.
SharedInit ==
  /\ RetryIdle
  /\ jobs = Discovered
  /\ cpu_count = NumProblems
  /\ dummy = "absent"
  /\ env \in {[p \in Problems |-> "ok"], [p \in Problems |-> IF p = 1 THEN "code" ELSE "ok"]}
  /\ home \in {Nested, [Nested EXCEPT ![2] = 1]}
  /\ stem = NumberedStems
  /\ only = <<(<<Digits[1]>>), (<<Digits[2]>>)>>
  /\ fs = FreshDirs(home, stem)
  /\ PipelineIdle

SharedSpec == SharedInit /\ [][BatchNext]_vars

\* A batch of the problems selected by --only 1 2, each in its own directory,
\* whose data analysis may run generated code.
StdoutInit ==
  /\ RetryIdle
  /\ jobs = Discovered
  /\ cpu_count \in {1, NumProblems}
  /\ dummy = "absent"
  /\ env \in {e \in [Problems -> {"ok", "code"}] : \A p \in Problems : p > 2 => e[p] = "ok"}
  /\ home = Nested
  /\ stem = NumberedStems
  /\ only = <<(<<Digits[1]>>), (<<Digits[2]>>)>>
  /\ fs = FreshDirs(home, stem)
  /\ PipelineIdle

StdoutSpec == StdoutInit /\ [][BatchNext]_vars

\* The --only filter: up to MaxOnly items, each a number, a stem, a file
\* name, a path or an empty string; the file of the last problem bears its own
\* number or, in another directory, the name of the first problem's file.
\* The selected pipelines run one after the other, every model request
\* answered.
OnlyCandidates ==
  { <<"1">>,
    <<"7">>,
    <<"problem_", "2">>,
    <<"problem_", "2", ".TXT">>,
    <<"problems", "/", "d1", "/", "problem_", "1", ".txt">>,
    <<".", "/", "problems", "/", "d2", "/", "problem_", "2", ".txt">>,
    <<"elsewhere", "/", "problem_", "2", ".txt">>,
    <<" ", "'", "'">> }

RECURSIVE OnlyLists(_)
OnlyLists(n) ==
  IF n = 0 THEN {<<>>}
  ELSE OnlyLists(n - 1) \cup {Append(l, r) : l \in OnlyLists(n - 1), r \in OnlyCandidates}

SelectInit ==
  /\ RetryIdle
  /\ jobs = Discovered
  /\ cpu_count = 1
  /\ dummy = "absent"
  /\ env = [p \in Problems |-> "code"]
  /\ home = Nested
  /\ stem \in {NumberedStems, [NumberedStems EXCEPT ![NumProblems] = NumberedStem(1)]}
  /\ only \in OnlyLists(MaxOnly) \ {<<>>}
  /\ fs = FreshDirs(home, stem)
  /\ PipelineIdle

SelectNext ==
  \/ MainStart
  \/ \E p \in Problems : WorkerTake(p)
  \/ \E p \in Problems : RunPipeline(p)
  \/ InlineReturn
  \/ \E p \in Problems : Collect(p)
  \/ Summary

SelectSpec == SelectInit /\ [][SelectNext]_vars

\* The scheduler: one, two or all problems selected, on a machine of 1 to
\* MaxCpus processors; every model request is answered.
PoolInit ==
  /\ RetryIdle
  /\ jobs = Discovered
  /\ cpu_count \in 1..MaxCpus
  /\ dummy = "absent"
  /\ env = [p \in Problems |-> "code"]
  /\ home = Nested
  /\ stem = NumberedStems
  /\ only \in {<<>>, <<(<<Digits[1]>>)>>, <<(<<Digits[1]>>), (<<Digits[2]>>)>>}
  /\ fs = FreshDirs(home, stem)
  /\ PipelineIdle

PoolSpec == PoolInit /\ [][SelectNext]_vars

\* The model call alone, on every sequence of responses.
RetryInit ==
  /\ llm_resps \in [1..MAX_RETRIES -> RespKinds]
  /\ llm_result = NotCalled
  /\ brain_result = NotAnalyzed
  /\ AnalystIdle
  /\ jobs = <<>>
  /\ cpu_count = 1
  /\ dummy = "absent"
  /\ env = [p \in Problems |-> "any"]
  /\ home = Nested
  /\ stem = NumberedStems
  /\ only = <<>>
  /\ fs = FreshDirs(home, stem)
  /\ PipelineIdle

DoCallLLM ==
  /\ llm_result = NotCalled
  /\ llm_result' = CallLLM(llm_resps)
  /\ UNCHANGED <<llm_resps, brain_result, main_vars, job_vars, hist_vars, analyst_vars>>

DoAnalyzeQuestion ==
  /\ brain_result = NotAnalyzed
  /\ brain_result' = AnalyzeQuestion(llm_resps)
  /\ UNCHANGED <<llm_resps, llm_result, main_vars, job_vars, hist_vars, analyst_vars>>

RetryNext ==
  \/ DoCallLLM
  \/ DoAnalyzeQuestion

RetrySpec == RetryInit /\ [][RetryNext]_vars

\* The FileResolver alone: any set of files on disk at construction, any list
\* of up to MaxRefs references.
RefCandidates ==
  { <<"genelist", ".", "csv">>,
    <<"Genelist", ".", "csv">>,
    <<"tpm", ".", "csv">>,
    <<"Q1", " ", "features">>,
    <<"Q1", "_", "features">>,
    <<"features">>,
    <<"v2">>,
    <<"missing">> }

RECURSIVE RefLists(_)
RefLists(n) ==
  IF n = 0 THEN {<<>>}
  ELSE RefLists(n - 1) \cup {Append(l, r) : l \in RefLists(n - 1), r \in RefCandidates}

\* the references written as one string, separated by a comma and a space
RECURSIVE JoinRefs(_)
JoinRefs(l) ==
  IF l = <<>> THEN <<>>
  ELSE IF Len(l) = 1 THEN Head(l)
  ELSE Head(l) \o <<",", " ">> \o JoinRefs(Tail(l))

\* no problem is run
PipelineUnused ==
  /\ llm_resps = AllSame("ok")
  /\ llm_result = NotCalled
  /\ brain_result = NotAnalyzed
  /\ jobs = <<>>
  /\ cpu_count = 1
  /\ dummy = "absent"
  /\ env = [p \in Problems |-> "any"]
  /\ home = Nested
  /\ stem = NumberedStems
  /\ only = <<>>
  /\ fs = FreshDirs(home, stem)
  /\ PipelineIdle

ResolverStart ==
  /\ PipelineUnused
  /\ AnalyzeIdle
  /\ ContextIdle
  /\ ScanIdle
  /\ LoaderIdle
  /\ OutputIdle
  /\ ExecutorIdle
  /\ disk \in SUBSET FileIds
  /\ file_index = EmptyIndex
  /\ resolved = <<>>
  /\ scanned = {}
  /\ res_op = "none"

ResolverInit ==
  /\ ResolverStart
  /\ db_list \in {JoinRefs(l) : l \in RefLists(MaxRefs)}

ResolverNext ==
  \/ NewFileResolver
  \/ ResolveCall

ResolverSpec == ResolverInit /\ [][ResolverNext]_vars

\* The FileResolver and its directory: one reference; files come and go, the
\* index is refreshed, the reference is resolved again.
IndexInit ==
  /\ ResolverStart
  /\ db_list \in RefCandidates

IndexNext ==
  \/ NewFileResolver
  \/ ResolveCall
  \/ RefreshIndex
  \/ \E f \in FileIds : DiskChange(f)

IndexSpec == IndexInit /\ [][IndexNext]_vars

\* load_file alone: a file of up to MaxLines lines after its header, under a
\* sample cap of 0 to MaxCap rows.
RECURSIVE LinesUpTo(_)
LinesUpTo(n) ==
  IF n = 0 THEN {<<>>}
  ELSE LinesUpTo(n - 1) \cup {Append(l, k) : l \in LinesUpTo(n - 1), k \in LineKinds}

LoaderInit ==
  /\ PipelineUnused
  /\ AnalyzeIdle
  /\ ContextIdle
  /\ ScanIdle
  /\ ResolverIdle
  /\ OutputIdle
  /\ ExecutorIdle
  /\ format_type \in {"csv", "text"}
  /\ first_line \in {"delimited", "plain"}
  /\ csv_lines \in LinesUpTo(MaxLines)
  /\ max_sample_rows \in 0..MaxCap
  /\ metadata = NotLoaded

LoaderSpec == LoaderInit /\ [][DoLoadFile]_vars

\* Two worker threads writing status lines and, with --verbose (the suppress
\* flag not set), lines on stdout.
OutputInit ==
  /\ PipelineUnused
  /\ AnalyzeIdle
  /\ ContextIdle
  /\ ScanIdle
  /\ ResolverIdle
  /\ LoaderIdle
  /\ ExecutorIdle
  /\ out_pc = [t \in OutThreads |-> "idle"]
  /\ out_count = [t \in OutThreads |-> 0]
  /\ status_lock = 0
  /\ stdout_lock = 0
  /\ suppress \in {[t \in OutThreads |-> b] : b \in BOOLEAN}
  /\ stderr_text = <<>>
  /\ stdout_text = <<>>

OutputNext ==
  \E t \in OutThreads :
    \/ StatusAcquire(t)
    \/ StatusWriteText(t)
    \/ StatusWriteEnd(t)
    \/ PrintCall(t)
    \/ RouterWrite(t)
    \/ RouterForward(t)

OutputSpec == OutputInit /\ [][OutputNext]_vars

\* One call of CodeExecutor.analyze_data for one loaded file.
ExecutorInit ==
  /\ PipelineUnused
  /\ AnalyzeIdle
  /\ ContextIdle
  /\ ScanIdle
  /\ ResolverIdle
  /\ LoaderIdle
  /\ OutputIdle
  /\ ExecutorIdle

ExecutorNext ==
  \/ AnalyzeData
  \/ ExecuteCode
  \/ GenerateFixCode

ExecutorSpec == ExecutorInit /\ [][ExecutorNext]_vars

\* The files that may lie around a data directory named d: the problem and
\* answer texts, data files, artifacts of the pipeline and temporary copies,
\* in the data directory, below it, beside it and above it.
Candidates(d) ==
  {[loc |-> <<d>>, name |-> <<"problem", "_1", ".txt">>],
   [loc |-> <<d>>, name |-> <<"tpm", ".csv">>],
   [loc |-> <<d>>, name |-> <<"Problem", "_set", ".csv">>],
   [loc |-> <<d>>, name |-> <<"answer", "_key", ".md">>],
   [loc |-> <<d>>, name |-> <<"model", ".json">>],
   [loc |-> <<d, <<"01_brain">> >>, name |-> <<"decomposition", ".txt">>],
   [loc |-> <<d, <<"temp_", "run">> >>, name |-> <<"tpm", ".csv">>],
   [loc |-> <<d, <<"raw">> >>, name |-> <<"reads", ".fastq", ".gz">>],
   [loc |-> <<d, <<"raw">>, <<"deep">> >>, name |-> <<"tpm", ".csv">>],
   [loc |-> <<>>, name |-> <<"Answer", ".TXT">>],
   [loc |-> <<>>, name |-> <<"genelist", ".tsv">>],
   [loc |-> << <<"shared">> >>, name |-> <<"tpm", ".csv">>],
   [loc |-> << <<"08_answer">> >>, name |-> <<"final", ".md">>],
   [loc |-> << <<"temp_", "old">> >>, name |-> <<"tpm", ".csv">>]}

\* One fallback scan of a data directory and what lies around it.
ScanInit ==
  /\ PipelineUnused
  /\ AnalyzeIdle
  /\ ContextIdle
  /\ ResolverIdle
  /\ LoaderIdle
  /\ OutputIdle
  /\ ExecutorIdle
  /\ directory \in {<<"problem_", "1">>, <<"temp_", "1">>}
  /\ tree \in SubsetsUpTo(Candidates(directory), MaxScanFiles)
  /\ scan_roots = {}
  /\ data_files = NotScanned

ScanSpec == ScanInit /\ [][GetAllDataFilesInDirectory]_vars

\* The sub-problems of a decomposition: flagged or not, with a DB_list that is
\* empty, blank, or names a folder or two files, one of them missing.
DbLists ==
  {<<>>, <<" ", ",", " ">>, <<"tpm", ".", "csv", ",", " ", "missing">>, <<"Q1", " ", "features">>}

SubProblemChoices == [DB_flag : {0, 1}, DB_list : DbLists]

RECURSIVE SubProblemLists(_)
SubProblemLists(n) ==
  IF n = 0 THEN {<<>>}
  ELSE SubProblemLists(n - 1)
         \cup {Append(l, sp) : l \in SubProblemLists(n - 1), sp \in SubProblemChoices}

\* the file_priority of a plan: none, a known name, an unknown name before a
\* known one, a name given twice, an object
PriorityChoices ==
  {<<>>,
   <<StrEntry(<<"Q1", ".", "tpm", ".", "csv">>)>>,
   <<StrEntry(<<"unknown", ".", "csv">>), StrEntry(<<"Q1", ".", "tpm", ".", "csv">>)>>,
   <<StrEntry(<<"Q1", ".", "tpm", ".", "csv">>), StrEntry(<<"Q1", ".", "tpm", ".", "csv">>)>>,
   <<DictEntry>>}

PlannerResponses ==
  {[kind |-> "fails", file_priority |-> <<>>, code_flow |-> "list"],
   [kind |-> "text", file_priority |-> <<>>, code_flow |-> "list"]}
  \cup [kind : {"json"}, file_priority : PriorityChoices, code_flow : {"list"}]
  \cup {[kind |-> "json", file_priority |-> <<StrEntry(<<"Q1", ".", "tpm", ".", "csv">>)>>,
         code_flow |-> "null"]}

\* what lies under data_dir when analyze runs: nothing, a file with an
\* extension nobody supports, one file, two files of one folder, two files
\* of two folders
DiskChoices == {{}, {5}, {1}, {2, 3}, {1, 3}, {3, 4}}

\* One call of analyze on a decomposition, the resolver built over the disk.
AnalyzeInit ==
  /\ PipelineUnused
  /\ ContextIdle
  /\ LoaderIdle
  /\ OutputIdle
  /\ ExecutorIdle
  /\ ScanIdle
  /\ disk \in DiskChoices
  /\ file_index = BuildFileIndex(disk)
  /\ db_list = <<>>
  /\ resolved = <<>>
  /\ scanned = disk
  /\ res_op = "init"
  /\ sub_problems \in SubProblemLists(MaxSubProblems)
  /\ an_pc = "start"
  /\ resolved_files = <<>>
  /\ analysis_plan = NoPlan
  /\ resolved_files_ordered = <<>>
  /\ file_analyses = <<>>
  /\ executor_errors = {}
  /\ model_calls = NoCalls
  /\ summarizer_end = "none"
  /\ an_output = NotReturned

AnalyzeNext ==
  \/ AnalyzeCollect
  \/ \E response \in PlannerResponses : PlannerStage(response)
  \/ AnalyzeSingleFile
  \/ \E end \in SummarizerEnds : SummarizerStage(end)

AnalyzeSpec == AnalyzeInit /\ [][AnalyzeNext]_vars

\* Two threads running the jobs one after another, each job entering
\* suppress_stdout blocks, printing and calling status(); with and without
\* --verbose.
ContextInit ==
  /\ PipelineUnused
  /\ AnalyzeIdle
  /\ ScanIdle
  /\ ResolverIdle
  /\ LoaderIdle
  /\ OutputIdle
  /\ ExecutorIdle
  /\ ctx_verbose \in BOOLEAN
  /\ ctx_flag = [t \in CtxThreads |-> FALSE]
  /\ ctx_problem = [t \in CtxThreads |-> ""]
  /\ ctx_tokens = [t \in CtxThreads |-> <<>>]
  /\ ctx_pc = [t \in CtxThreads |-> "free"]
  /\ ctx_job = [t \in CtxThreads |-> 0]
  /\ ctx_next = 1
  /\ ctx_blocks = [t \in CtxThreads |-> 0]
  /\ ctx_done = [t \in CtxThreads |-> "none"]
  /\ ctx_write = NoWrite
  /\ ctx_line = NoLine

ContextNext ==
  \E t \in CtxThreads :
    \/ CtxRunPipelineEnter(t)
    \/ CtxSuppressEnter(t)
    \/ \E raised \in BOOLEAN : CtxSuppressExit(t, raised)
    \/ CtxRaise(t)
    \/ CtxRunPipelineExit(t)
    \/ CtxRouterWrite(t)
    \/ CtxStatus(t)

ContextSpec == ContextInit /\ [][ContextNext]_vars

\* The pipeline with every started run_pipeline call scheduled: a job that can
\* take its next step eventually takes it (the worker thread keeps running,
\* and each model request returns or raises).
\* It starts in fresh problem directories; the second invocation of main
\* finds whatever the first one left.
TerminationInit == Init /\ fs = FreshDirs(home, stem)

TerminationSpec ==
  TerminationInit /\ [][Next]_vars /\ \A p \in Problems : WF_vars(RunPipeline(p))

\* ================================================================= claims
\* A completion artifact of step s (primary or legacy name) is on disk in d.
HasArtifact(d, s) ==
  \/ d[Primary(s)] # "absent"
  \/ s \in LegacySteps /\ d[Legacy(s)] # "absent"

\* the position of run_pipeline after the block of step s
NextPos(s) == IF s = "Answer" THEN "final" ELSE StepOrder[StepIndex(s) + 1]

InRun(p) == pc[p] \notin {"idle", "queued"}

\* C1: when answer_<id>.txt exists as run_pipeline starts, the run invokes no
\* agent, makes no model request and leaves every file of the directory as
\* it was; so does a run that follows a run that completed.
C1_AnsweredProblemIsUntouched ==
  \A p \in Problems :
    (InRun(p) /\ (fs0[home[p]][FinalAnswer(p)] # "absent" \/ prevOutcome[p] = "success"))
      => /\ invoked[p] = <<>>
         /\ requests[p] = 0
         /\ ProblemDir(p) = fs0[home[p]]
         /\ pc[p] \in {"start", "done"}
         /\ pc[p] = "done" => outcome[p] = "skipped"

C1_Witness ==
  \E p \in Problems :
    /\ pc[p] = "done"
    /\ outcome[p] = "skipped"
    /\ prevOutcome[p] = "success"
    /\ ProblemDir(p) = fs0[home[p]]

\* C2: in one run the agent of a step is invoked at most once, and only when
\* no completion artifact of the step (primary or legacy name) is on disk as
\* the step is reached; when one is, the step is skipped: no agent runs, no
\* file changes, and the run moves on to the next step.
C2_AgentOnlyWithoutArtifact ==
  [][\A p \in Problems : \A s \in Steps :
       pc[p] = s =>
         /\ HasArtifact(ProblemDir(p), s) =>
              (invoked'[p] = invoked[p] /\ fs'[home[p]] = ProblemDir(p) /\ pc'[p] \in {s, NextPos(s)})
         /\ invoked'[p] # invoked[p] =>
              /\ ~HasArtifact(ProblemDir(p), s)
              /\ invoked'[p] = Append(invoked[p], s)
              /\ \A i \in 1..Len(invoked[p]) : invoked[p][i] # s]_vars

C2_Witness ==
  \E p \in Problems :
    /\ ref[p].search = Legacy("Search")
    /\ ProblemDir(p)[Primary("Search")] = "absent"
    /\ invoked[p] = <<"Brain", "DataAnalysis", "Blue">>

\* C3: when the previous run failed at step k, the next run on the unchanged
\* directory invokes no agent of a step before k and the first agent it
\* invokes is the one of step k.
C3_ResumesAtFailedStep ==
  \A p \in Problems :
    (prevFailedAt[p] \in Steps /\ pc[p] = "done")
      => (invoked[p] # <<>> /\ invoked[p][1] = prevFailedAt[p])

\* the rank of a completion artifact in the step order
FileRank(f) ==
  IF f \notin StepFiles THEN Len(StepOrder) + 1
  ELSE CHOOSE i \in 1..Len(StepOrder) :
         \/ f = Primary(StepOrder[i])
         \/ StepOrder[i] \in LegacySteps /\ f = Legacy(StepOrder[i])

\* C4: the agent of step N+1 is invoked only when a completion artifact of
\* step N is on disk, every upstream path handed to an invoked agent names an
\* existing file, and the completion artifacts a run creates appear in step
\* order.
C4_StepOrder ==
  /\ [](\A p \in Problems :
          /\ handedMissing[p] = {}
          /\ \A i, j \in 1..Len(created[p]) :
               i < j => FileRank(created[p][i]) < FileRank(created[p][j]))
  /\ [][\A p \in Problems : \A s \in Steps \ {"Brain"} :
          (pc[p] = s /\ invoked'[p] # invoked[p])
            => HasArtifact(ProblemDir(p), StepOrder[StepIndex(s) - 1])]_vars

C4_Witness ==
  \E p \in Problems :
    /\ outcome[p] = "success"
    /\ Len(created[p]) = Len(StepOrder) + 1
    /\ Len(invoked[p]) = Len(StepOrder)

\* C5: when the agent of a step other than DataAnalysis raises after its
\* retries are exhausted, the run ends there: no later agent is invoked, no
\* completion artifact of the failed step and no answer_<id>.txt exists, and
\* no exception leaves run_pipeline.
C5_FailedStepEndsRun ==
  \A p \in Problems : \A s \in Steps \ {"DataAnalysis"} :
    how[p][s] = "retries"
      => /\ pc[p] = "done"
         /\ outcome[p] = "failed"
         /\ invoked[p][Len(invoked[p])] = s
         /\ ~HasArtifact(ProblemDir(p), s)
         /\ ProblemDir(p)[FinalAnswer(p)] = "absent"
         /\ ~escaped[p]

C5_Witness ==
  \E p \in Problems :
    /\ how[p]["BlueX"] = "retries"
    /\ pc[p] = "done"
    /\ requests[p] = MAX_RETRIES + 4

\* C6: in a batch every selected problem's pipeline is entered exactly once,
\* a problem whose own model requests are all answered ends with its final
\* answer whatever happens to the others, and the failure of one pipeline
\* changes nothing of another problem.
C6_BatchIsolation ==
  /\ [](mainpc = "exit" =>
          \A i \in 1..Len(jobs) :
            /\ started[jobs[i]] = 1
            /\ pc[jobs[i]] = "done"
            /\ env[jobs[i]] = "ok" =>
                 (outcome[jobs[i]] = "success" /\ ProblemDir(jobs[i])[FinalAnswer(jobs[i])] # "absent"))
  /\ [][\A p, q \in Problems :
          (p # q /\ outcome[p] # "failed" /\ outcome'[p] = "failed")
            => (fs'[home[q]] = ProblemDir(q) /\ pc'[q] = pc[q] /\ outcome'[q] = outcome[q])]_vars

C6_Witness ==
  /\ mainpc = "exit"
  /\ max_workers > 1
  /\ \E p, q \in Problems :
       /\ outcome[p] = "failed"
       /\ outcome[q] = "success"
       /\ ProblemDir(q)[FinalAnswer(q)] # "absent"

\* the failure count of the batch summary (no summary line: no failure)
ReportedFailures == IF reported = -1 THEN 0 ELSE reported

\* C7: the failure count the batch scheduler reports equals the number of
\* problems whose pipeline failed.
C7_ReportedFailureCount ==
  mainpc = "exit"
    => ReportedFailures = Cardinality({p \in Problems : outcome[p] = "failed"})

\* C8: an exception of DataAnalystAgent.run_for_problem or a 'skipped' or
\* 'error' status result never fails the pipeline: the run goes on with
\* data_analysis_results.txt written, and the Blue agent is only invoked
\* when that file exists.
C8_DataAnalysisNeverFatal ==
  /\ [](\A p \in Problems :
          how[p]["DataAnalysis"] \in {"raise", "skipped", "error"}
            => /\ failedAt[p] # "DataAnalysis"
               /\ ProblemDir(p)[Primary("DataAnalysis")] \notin {"absent", "old"})
  /\ [][\A p \in Problems :
          (pc[p] = "Blue" /\ invoked'[p] # invoked[p])
            => ProblemDir(p)[Primary("DataAnalysis")] # "absent"]_vars

C8_Witness ==
  \E p \in Problems :
    /\ how[p]["DataAnalysis"] = "raise"
    /\ ProblemDir(p)[Primary("DataAnalysis")] = "dummy"
    /\ how[p]["Blue"] = "ok"

AllFail == \A i \in 1..MAX_RETRIES : IsException(llm_resps[i])

\* C9: a model call whose every attempt fails makes exactly MAX_RETRIES = 5
\* attempts, waits 1, 2, 4, 8 between consecutive attempts, its waits never
\* decrease, and it raises the error of the last attempt.
C9_RetryBackoff ==
  (llm_result # NotCalled /\ AllFail)
    => /\ llm_result.attempts = 5
       /\ SubSeq(llm_result.waits, 1, 4) = <<1, 2, 4, 8>>
       /\ \A i \in 1..(Len(llm_result.waits) - 1) :
            llm_result.waits[i] <= llm_result.waits[i + 1]
       /\ llm_result.outcome = "raise"
       /\ llm_result.value = llm_resps[MAX_RETRIES]

C9_Witness ==
  /\ llm_result.outcome = "raise"
  /\ llm_resps[1] = "err1"
  /\ llm_resps[MAX_RETRIES] = "err2"

\* the step's output is on disk and not empty
HasNonEmptyArtifact(d, s) ==
  \/ d[Primary(s)] \notin {"absent", "empty"}
  \/ s \in LegacySteps /\ d[Primary(s)] = "absent" /\ d[Legacy(s)] \notin {"absent", "empty"}

\* C10 as stated: a step is skipped exactly when its output exists and is
\* not empty.
C10_SkipsOnlyNonEmpty ==
  [][\A p \in Problems : \A s \in Steps :
       pc[p] = s => ((invoked'[p] = invoked[p] /\ pc'[p] # "exec")
                       <=> HasNonEmptyArtifact(ProblemDir(p), s))]_vars

\* C10 amended: a step is skipped exactly when its output path (primary or
\* legacy) exists, whether or not the file is empty.
C10_SkipsOnExistence ==
  [][\A p \in Problems : \A s \in Steps :
       pc[p] = s => ((invoked'[p] = invoked[p] /\ pc'[p] # "exec")
                       <=> HasArtifact(ProblemDir(p), s))]_vars

C10_Witness ==
  \E p \in Problems :
    /\ ProblemDir(p)[Primary("Search")] = "empty"
    /\ pc[p] = "DataAnalysis"
    /\ invoked[p] = <<"Brain">>

\* the result variable of run_pipeline that holds the artifact of step s
RefOf(s) ==
  CASE s = "Search"    -> "search"
    [] s = "Blue"      -> "blue"
    [] s = "Red"       -> "red"
    [] s = "BlueX"     -> "bluex"
    [] s = "RedReview" -> "review"

\* C11: for Search, Blue, Red, BlueX and RedReview, when output.txt is absent
\* and the legacy-named file exists the agent is not invoked, no file of the
\* directory changes at that step, the legacy path is the step's result and
\* the only path of that step handed to later agents in the run, and the
\* primary name stays absent; when both files exist the primary path is used.
C11_LegacyAdopted ==
  /\ [](\A p \in Problems : \A s \in LegacySteps :
          /\ how[p][s] = "legacy" =>
               /\ \A i \in 1..Len(invoked[p]) : invoked[p][i] # s
               /\ ref[p][RefOf(s)] = Legacy(s)
               /\ ProblemDir(p)[Primary(s)] = "absent"
               /\ ProblemDir(p)[Legacy(s)] = fs0[home[p]][Legacy(s)]
               /\ \A h \in handed[p] : h[2] \in {Primary(s), Legacy(s)} => h[2] = Legacy(s)
          /\ (how[p][s] # "none" /\ fs0[home[p]][Primary(s)] # "absent"
                /\ fs0[home[p]][Legacy(s)] # "absent") =>
               /\ how[p][s] = "skip"
               /\ ref[p][RefOf(s)] = Primary(s)
               /\ \A h \in handed[p] : h[2] \in {Primary(s), Legacy(s)} => h[2] = Primary(s))
  /\ [][\A p \in Problems : \A s \in LegacySteps :
          /\ (pc[p] = s /\ pc'[p] # s /\ ProblemDir(p)[Primary(s)] = "absent"
                /\ ProblemDir(p)[Legacy(s)] # "absent") =>
               (how'[p][s] = "legacy" /\ fs'[home[p]] = ProblemDir(p) /\ invoked'[p] = invoked[p])
          /\ (pc[p] \notin {"idle", "done"} /\ pc'[p] # "idle"
                /\ ref[p][RefOf(s)] # "unset") =>
               ref'[p][RefOf(s)] = ref[p][RefOf(s)]]_vars

C11_Witness ==
  \E p \in Problems :
    /\ pc[p] = "done"
    /\ outcome[p] = "success"
    /\ how[p]["Blue"] = "legacy"
    /\ how[p]["BlueX"] = "ok"
    /\ <<"Red", Legacy("Blue")>> \in handed[p]
    /\ <<"BlueX", Legacy("Blue")>> \in handed[p]

\* C12: two distinct problems of a batch never write, or take as a
\* checkpoint, the same file.
C12_DisjointPaths ==
  \A p, q \in Problems : p # q => touched[p] \cap touched[q] = {}

\* the jobs that are inside run_pipeline
Active == {p \in Problems : pc[p] \notin {"idle", "queued", "done"}}

\* C13: the process-wide sys.stdout is the router installed at start-up
\* whenever a job other than the one executing generated code can write to
\* it, and again once every job of the batch has finished.
C13_StdoutIsRouter ==
  /\ \A q \in Active : pc[q] # "exec" => sys_stdout = "router"
  /\ \A p \in Active : pc[p] = "exec" => sys_stdout = Buffer(p)
  /\ mainpc = "exit" => sys_stdout = "router"

\* the responses that analyze_question cannot use: an exception of the
\* request, a text that does not parse or validate, a response without text
Unusable(r) == r # "ok"

\* C14: in analyze_question a response that does not parse or validate is
\* retried like a failed request and counts against the same budget: the
\* call makes at most MAX_RETRIES requests whatever the mix of failures, it
\* returns the first usable response at once, and it raises the last failure
\* when all MAX_RETRIES responses were unusable.
C14_ParseFailureRetried ==
  brain_result # NotAnalyzed =>
    /\ brain_result.attempts <= MAX_RETRIES
    /\ \A i \in 1..MAX_RETRIES :
         (llm_resps[i] = "ok" /\ \A j \in 1..(i - 1) : Unusable(llm_resps[j]))
           => (brain_result = [outcome |-> "return", value |-> "ok", attempts |-> i])
    /\ (\A i \in 1..MAX_RETRIES : Unusable(llm_resps[i]))
         => (brain_result = [outcome |-> "raise", value |-> llm_resps[MAX_RETRIES],
                             attempts |-> MAX_RETRIES])

C14_Witness ==
  /\ brain_result.outcome = "return"
  /\ brain_result.attempts = 4
  /\ llm_resps[1] = "err1"
  /\ llm_resps[2] = "badjson"
  /\ llm_resps[3] = "none"

\* answer_<suffix>.txt: the suffix is what follows "problem_" in the problem
\* id, the whole id when nothing follows
ExpectedAnswerName(p) ==
  IF Len(stem[p]) > 1
    THEN "answer_" \o Render(Tail(stem[p])) \o ".txt"
    ELSE "answer_" \o Render(stem[p]) \o ".txt"

\* C19: a run in which no agent step fails ends with answer_<suffix>.txt in
\* the problem's directory, its content that of 08_answer/output.txt; the
\* suffix is the problem id without its leading "problem_", the whole id when
\* nothing remains.
C19_FinalAnswerCopied ==
  \A p \in Problems :
    /\ (pc[p] = "done" /\ failedAt[p] = "none") => outcome[p] \in {"success", "skipped"}
    /\ outcome[p] = "success" =>
         /\ ExpectedAnswerName(p) \in DOMAIN ProblemDir(p)
         /\ ProblemDir(p)[ExpectedAnswerName(p)] # "absent"
         /\ ProblemDir(p)[ExpectedAnswerName(p)] = ProblemDir(p)[Primary("Answer")]
    /\ outcome[p] = "skipped" =>
         /\ ExpectedAnswerName(p) \in DOMAIN ProblemDir(p)
         /\ ProblemDir(p)[ExpectedAnswerName(p)] # "absent"

\* the run of problem_.txt has ended with answer_problem_.txt
C19_Witness ==
  /\ stem[1] = BareStem
  /\ outcome[1] = "success"
  /\ invoked[1] # <<>>
  /\ ProblemDir(1)["answer_problem_.txt"] = ProblemDir(1)[Primary("Answer")]

\* the stem a number, a file name or a stem given to --only stands for
ItemStem(item) ==
  IF IsDigit(item) THEN <<"problem_">> \o item
  ELSE IF Lower(item)[Len(item)] = ".txt" THEN SplitextRoot(item)
  ELSE item

\* a selector as the claim states it: a path selects the file at that path
SelectsAsStated(raw, p) ==
  LET item == StripItem(raw)
  IN  /\ item # <<>>
      /\ IF LooksLikePath(item)
           THEN NormPath(item) = NormPath(FilePath(p))
           ELSE stem[p] = ItemStem(item)

\* a path selects, besides the file at that path, every discovered file
\* whose stem is that of the path's last component
SelectsByPathOrStem(raw, p) ==
  LET item == StripItem(raw)
  IN  /\ item # <<>>
      /\ IF LooksLikePath(item)
           THEN \/ NormPath(item) = NormPath(FilePath(p))
                \/ stem[p] = SplitextRoot(Basename(item))
           ELSE stem[p] = ItemStem(item)

\* no pipeline has run and main has returned without a failure report
NothingRun ==
  /\ mainpc = "exit"
  /\ reported = -1
  /\ \A p \in Problems : started[p] = 0 /\ pc[p] = "idle" /\ ~escaped[p]

\* C20 as stated: the --only filter yields the discovered files, in discovery
\* order and each once, that a selector matches, where a number n matches the
\* stem problem_n, a file name or stem that stem, and a path the file at that
\* path; an empty result runs no pipeline and main returns normally.
C20_OnlyAsStated ==
  mainpc # "init" =>
    LET Selected(p) == \E i \in 1..Len(only) : SelectsAsStated(only[i], p)
    IN  /\ jobs = SelectSeq(Discovered, Selected)
        /\ jobs = <<>> => NothingRun

\* C20 amended: as stated, except that a path also matches every discovered
\* file whose stem equals the stem of the path's last component.
C20_OnlyByPathOrStem ==
  mainpc # "init" =>
    LET Selected(p) == \E i \in 1..Len(only) : SelectsByPathOrStem(only[i], p)
    IN  /\ jobs = SelectSeq(Discovered, Selected)
        /\ jobs = <<>> => NothingRun

\* the path of the first problem's file has selected that file and the file
\* of the same name in another directory, and both pipelines have run
C20_Witness ==
  /\ only = <<(<<"problems", "/", "d1", "/", "problem_", "1", ".txt">>)>>
  /\ stem[NumProblems] = NumberedStem(1)
  /\ jobs = <<1, NumProblems>>
  /\ mainpc = "exit"
  /\ started[1] = 1 /\ started[NumProblems] = 1

Min(a, b) == IF a < b THEN a ELSE b

\* the pipelines that occupy a worker thread
Occupied == {p \in Problems : pc[p] \notin {"idle", "queued", "done"}}

\* C21 as stated: with J >= 2 jobs and P processors the pool has min(P/2, J)
\* workers when J > P and J workers otherwise; a single problem runs inline
\* with no pool.
C21_PoolAsStated ==
  /\ mainpc = "pool" =>
       /\ Len(jobs) >= 2
       /\ max_workers = IF Len(jobs) > cpu_count
                          THEN Min(cpu_count \div 2, Len(jobs))
                          ELSE Len(jobs)
       /\ Cardinality(Occupied) <= max_workers
  /\ (mainpc # "init" /\ Len(jobs) = 1) => (mainpc \in {"inline", "exit"} /\ max_workers = 0)

\* C21 amended: when J > P the pool has P/2 workers (rounded down) but never
\* fewer than one; otherwise J workers; a single problem runs inline.
C21_PoolAtLeastOne ==
  /\ mainpc = "pool" =>
       /\ Len(jobs) >= 2
       /\ max_workers = IF Len(jobs) > cpu_count
                          THEN (IF cpu_count \div 2 >= 1 THEN cpu_count \div 2 ELSE 1)
                          ELSE Len(jobs)
       /\ Cardinality(Occupied) <= max_workers
  /\ (mainpc # "init" /\ Len(jobs) = 1) => (mainpc \in {"inline", "exit"} /\ max_workers = 0)

\* on one processor every selected problem is run by a pool of one worker
C21_Witness ==
  /\ mainpc = "pool"
  /\ cpu_count = 1
  /\ Len(jobs) = NumProblems
  /\ max_workers = 1
  /\ Cardinality(Occupied) = 1
  /\ \E p \in Problems : outcome[p] = "success"

\* ---- FileResolver claims
\* the files of the index
IndexedFiles == {file_index.by_pattern[i] : i \in 1..Len(file_index.by_pattern)}

\* resolve has returned, and its db_list held the single reference r
ResolvedSingle(r) ==
  /\ res_op = "resolve"
  /\ References(db_list) = <<r>>

StrategyOf(match_type) ==
  CASE match_type \in {"exact", "exact_prefixed"} -> "exact"
    [] match_type \in {"folder_keyword", "folder_normalized"} -> "folder"
    [] OTHER -> "pattern"

\* C15: for a single reference resolve returns the results of exactly one
\* strategy, the first of exact (direct, then prefixed), folder and pattern
\* that finds something; when a file of exactly the requested name is indexed,
\* every returned file bears that name and none is folder- or pattern-matched.
C15_OneStrategy ==
  \A r \in RefCandidates :
    ResolvedSingle(r) =>
      LET exact == MatchExact(file_index, r)
          folder == MatchFolder(file_index, r)
          pattern == MatchPattern(file_index, r)
      IN  /\ \A i, j \in 1..Len(resolved) :
                StrategyOf(resolved[i].match_type) = StrategyOf(resolved[j].match_type)
          /\ exact # <<>> => resolved = exact
          /\ (exact = <<>> /\ folder # <<>>) => resolved = folder
          /\ (exact = <<>> /\ folder = <<>>) => resolved = pattern
          /\ (\E f \in IndexedFiles : Universe[f].name = r) =>
                \A i \in 1..Len(resolved) :
                  /\ resolved[i].match_type = "exact"
                  /\ Universe[resolved[i].path].name = r

\* genelist.csv is resolved to the one file of that name although a folder
\* and further paths hold both of its keywords
C15_Witness ==
  LET r == <<"genelist", ".", "csv">>
  IN  /\ ResolvedSingle(r)
      /\ Len(resolved) = 1
      /\ resolved[1].match_type = "exact"
      /\ MatchFolder(file_index, r) # <<>>
      /\ Len(MatchPattern(file_index, r)) > 1

\* the folder names of the index
IndexedFolders == {Universe[f].folder : f \in IndexedFiles}

\* the indexed folder names in which every token of the reference appears
FoldersWithAllTokens(r) ==
  LET tokens == Findall(Lower(r))
  IN  {n \in IndexedFolders : \A i \in 1..Len(tokens) : IsInfix(tokens[i], Lower(n))}

\* C16: a reference without an exact filename match whose tokens all appear
\* in exactly one indexed folder name is resolved to exactly the indexed files
\* of that folder; no file of another folder is returned.
C16_FolderOfAllTokens ==
  \A r \in RefCandidates :
    (/\ ResolvedSingle(r)
     /\ MatchExact(file_index, r) = <<>>
     /\ Findall(Lower(r)) # <<>>
     /\ Cardinality(FoldersWithAllTokens(r)) = 1)
      => LET n == CHOOSE m \in FoldersWithAllTokens(r) : TRUE
         IN  /\ {resolved[i].path : i \in 1..Len(resolved)}
                   = {f \in IndexedFiles : Universe[f].folder = n}
             /\ \A i \in 1..Len(resolved) : Universe[resolved[i].path].folder = n

\* "Q1 features" is resolved to the two files of Q1.features while the folder
\* features, which holds one of the two tokens, is indexed too
C16_Witness ==
  LET r == <<"Q1", " ", "features">>
  IN  /\ ResolvedSingle(r)
      /\ FoldersWithAllTokens(r) = {<<"Q1", ".", "features">>}
      /\ <<"features">> \in IndexedFolders
      /\ Len(resolved) = 2

\* the results of the references of l, one after the other
RECURSIVE Concatenated(_)
Concatenated(l) ==
  IF l = <<>> THEN <<>>
  ELSE ResolveSingle(file_index, Head(l)) \o Concatenated(Tail(l))

\* the first position of the path of cat[k] in cat
FirstAt(cat, k) == CHOOSE i \in 1..k : cat[i].path = cat[k].path /\ \A j \in 1..(i - 1) : cat[j].path # cat[k].path

\* l without its i-th reference
Without(l, i) == SubSeq(l, 1, i - 1) \o SubSeq(l, i + 1, Len(l))

\* C17: resolve on a comma-separated list returns the results of the
\* references concatenated in the order of the references, every path once and
\* at the place of its first occurrence; a reference that resolves to nothing
\* contributes nothing.
C17_ConcatenatedOnce ==
  \A l \in RefLists(MaxRefs) :
    (res_op = "resolve" /\ db_list = JoinRefs(l)) =>
      LET cat == Concatenated(l)
          firsts == {k \in 1..Len(cat) : FirstAt(cat, k) = k}
      IN  /\ Len(resolved) = Cardinality(firsts)
          /\ \A i, j \in 1..Len(resolved) : i # j => resolved[i].path # resolved[j].path
          /\ \A i \in 1..Len(resolved) :
                \E k \in firsts :
                  /\ resolved[i] = cat[k]
                  /\ Cardinality({m \in firsts : m < k}) = i - 1
          /\ \A i \in 1..Len(l) :
                ResolveSingle(file_index, l[i]) = <<>>
                  => resolved = Resolve(file_index, JoinRefs(Without(l, i)))

\* "genelist.csv, Q1 features": the file of that name comes first, as an
\* exact match, and is not repeated among the files of the folder
C17_Witness ==
  /\ res_op = "resolve"
  /\ db_list = JoinRefs(<<(<<"genelist", ".", "csv">>), (<<"Q1", " ", "features">>)>>)
  /\ Len(resolved) = 2
  /\ resolved[1].match_type = "exact"
  /\ resolved[2].match_type = "folder_keyword"
  /\ Len(MatchFolder(file_index, <<"Q1", " ", "features">>)) = 2

\* C18: the file index changes only at construction and in refresh_index;
\* resolve leaves it as it is, and returns what the files of the last scan
\* give, whatever was added or removed since.
C18_IndexOnlyRefreshed ==
  [][/\ file_index' # file_index => res_op' \in {"init", "refresh"}
     /\ res_op' = "resolve" =>
          /\ file_index' = file_index
          /\ resolved' = Resolve(BuildFileIndex(scanned), db_list)
     /\ res_op' = "refresh" => file_index' = BuildFileIndex(disk)]_vars

\* resolve has returned a result that a scan of the present files would not give
C18_Witness ==
  /\ res_op = "resolve"
  /\ disk # scanned
  /\ resolved # Resolve(BuildFileIndex(disk), db_list)
  /\ resolved # <<>>

\* ---- DataLoader claims
\* C22: loading a delimited file of N data rows under a sample cap C gives
\* min(N, C) loaded rows, a total-row count of N, and is_sampled exactly when
\* N > C.
C22_SampleCap ==
  (metadata # NotLoaded /\ format_type = "csv") =>
    /\ metadata.loaded_rows = Smaller(DataRows(csv_lines), max_sample_rows)
    /\ metadata.total_rows = DataRows(csv_lines)
    /\ metadata.is_sampled <=> (DataRows(csv_lines) > max_sample_rows)

\* ---- output claims
\* every text written to the stream is followed at once by the line end of
\* the same thread, unless it is the last write so far
WholeLines(stream) ==
  \A i \in 1..Len(stream) :
    stream[i][2] = "text" => (i = Len(stream) \/ stream[i + 1] = <<stream[i][1], "end">>)

\* C23: under concurrent jobs the text of one output line written by one
\* thread is never interleaved with text written by another thread, for the
\* lines of status() and for the stdout lines that pass through the router.
C23_NoInterleaving ==
  /\ WholeLines(stderr_text)
  /\ WholeLines(stdout_text)

\* the part of C23 that is about status()
C23_StatusLinesWhole == WholeLines(stderr_text)

\* ---- CodeExecutor claims
\* C25: generated code that runs to completion without assigning result is
\* treated as an execution failure and triggers a fix attempt; it is not a
\* successful analysis.
C25_SilentCodeFails ==
  \A i \in 1..Len(executions) :
    (i \in DOMAIN code_kind /\ code_kind[i] = "silent") => executions[i] = "failed"

\* C26: for one file the executor runs generated code at most 4 times and
\* requests at most 3 fixes; each fix request follows a failed execution
\* and carries that failure's error message and the code that failed; the
\* loop stops at the first successful execution.
C26_BoundedFixLoop ==
  /\ Len(executions) <= 4
  /\ Len(fix_requests) <= 3
  /\ Len(fix_requests) <= Len(exec_failures)
  /\ \A i \in 1..Len(fix_requests) :
       i \in DOMAIN exec_failures =>
         /\ executions[i] = "failed"
         /\ fix_requests[i].previous_code = exec_failures[i].code
         /\ fix_requests[i].previous_code = i
         /\ fix_requests[i].error_message = ErrorMsg(exec_failures[i].error)
  /\ \A i \in 1..Len(executions) :
       executions[i] = "ok" => (i = Len(executions) /\ ex_pc = "done")

\* four executions and three fix requests, each failure of another kind
\* than the one before
C26_Witness ==
  /\ ex_pc = "done"
  /\ Len(executions) = 4
  /\ Len(fix_requests) = 3
  /\ exec_failures[1].error # exec_failures[2].error
  /\ exec_failures[2].error # exec_failures[3].error
  /\ executions[4] = "ok"

\* ---- fallback scan claims
\* the file lies in a directory, at any depth, that the scan is to skip
InSkippedDir(f) == \E i \in 1..Len(f.loc) : SkippedDir(f.loc[i])

\* the file lies in a subdirectory that a scanned directory is to skip
InSkippedSubdir(f) ==
  \E root \in scan_roots :
    /\ Len(f.loc) > Len(root)
    /\ SubSeq(f.loc, 1, Len(root)) = root
    /\ SkippedDir(f.loc[Len(root) + 1])

NamedProblemOrAnswer(f) == f.name[1] \in {"problem", "answer"}

\* C30 as stated: the fallback scan never returns a file located in a
\* pipeline-output subdirectory or in a temp_* directory, nor a file whose
\* name begins with 'problem' or 'answer'.
C30_AsStated ==
  data_files # NotScanned =>
    \A f \in data_files : ~InSkippedDir(f) /\ ~NamedProblemOrAnswer(f)

\* C30: the fallback scan never returns a file located in a subdirectory of
\* a scanned directory that is a pipeline-output directory or is named
\* temp_*, nor a .txt file whose name, in lower case, begins with 'problem'
\* or 'answer'.
C30_SkipsOutputsAndTexts ==
  data_files # NotScanned =>
    \A f \in data_files :
      /\ ~InSkippedSubdir(f)
      /\ ~(Lower(f.name)[Len(f.name)] = ".txt"
           /\ Lower(f.name)[1] \in {"problem", "answer"})

\* the problem text, an artifact of the brain step and a temporary copy are
\* on disk, and the scan returned the one data file beside them
C30_Witness ==
  /\ data_files # NotScanned
  /\ \E f \in tree : f.loc = <<directory>> /\ f.name = <<"problem", "_1", ".txt">>
  /\ \E f \in tree : Len(f.loc) = 2 /\ SkippedDir(f.loc[2])
  /\ Cardinality(tree) = 3
  /\ Cardinality(data_files) = 1

\* ---- analyze claims
\* analyze has gone through every file
FilesDone == an_pc = "returned" /\ summarizer_end # "none"

\* C24: when the executor exhausts its fix attempts for a file, the file's
\* entry in the per-file results is an error record, counted as failed and
\* not as a valid analysis, and every other resolved file is still analysed.
C24_ExhaustedIsErrorRecord ==
  /\ \A i \in executor_errors :
       i \in DOMAIN file_analyses => "error" \in DOMAIN file_analyses[i]
  /\ FilesDone => Len(file_analyses) = Len(resolved_files)

\* the second half of C24 alone: a file whose analysis failed stops no other
\* file from being analysed
C24_OthersStillAnalysed ==
  FilesDone =>
    /\ Len(file_analyses) = Len(resolved_files)
    /\ \A i \in 1..Len(file_analyses) :
         Get(file_analyses[i], "file", Get(file_analyses[i], "file_name", <<>>))
           = resolved_files_ordered[i].name

PriorityNames(plan) ==
  IF plan = NoPlan THEN <<>>
  ELSE LET First(i) == \A j \in 1..(i - 1) : plan.file_priority[j] # plan.file_priority[i]
           idx == SelectSeq([i \in 1..Len(plan.file_priority) |-> i], First)
       IN  [k \in 1..Len(idx) |-> plan.file_priority[idx[k]].value]

\* the files named in the priority, in priority order, then the others in
\* resolved order
RECURSIVE NamedFirst(_, _)
NamedFirst(files, names) ==
  IF names = <<>> THEN files
  ELSE LET Named(f) == f.name = Head(names)
           Other(f) == f.name # Head(names)
       IN  SelectSeq(files, Named) \o NamedFirst(SelectSeq(files, Other), Tail(names))

\* C28: whatever the Planner produces, analyze does not abort and the
\* Executor processes every resolved file exactly once: in resolved order
\* with no usable file_priority, else the files named in file_priority
\* first, in priority order, followed by the others in resolved order.
C28_PlanIsAdvisory ==
  /\ an_pc # "raised"
  /\ an_pc = "files" =>
       resolved_files_ordered = NamedFirst(resolved_files, PriorityNames(analysis_plan))
  /\ FilesDone => Len(file_analyses) = Len(resolved_files)

\* the sub-problems with DB_flag = 1
Flagged == {i \in 1..Len(sub_problems) : sub_problems[i].DB_flag = 1}

\* the references the flagged sub-problems list
FlaggedRefs ==
  UNION {{References(sub_problems[i].DB_list)[k] :
            k \in 1..Len(References(sub_problems[i].DB_list))} : i \in Flagged}

NothingFound ==
  /\ Resolve(file_index, CommaJoin(SortedRefs(FlaggedRefs))) = <<>>
  /\ FallbackFiles(disk) = <<>>

MissingData == Flagged = {} \/ FlaggedRefs = {} \/ NothingFound

\* C29: analyze never raises on missing data: it returns a status object
\* with status 'skipped' when no sub-problem has DB_flag = 1, and with
\* status 'error' when the flagged sub-problems list no references or when
\* neither the resolution nor the fallback scan finds a file; no Planner,
\* Executor or Summarizer model call is made in these cases.
C29_StatusOnMissingData ==
  (an_pc # "start" /\ MissingData) =>
    /\ an_pc = "returned"
    /\ an_output.type = "dict"
    /\ "status" \in DOMAIN an_output.value
    /\ an_output.value.status = (IF Flagged = {} THEN "skipped" ELSE "error")
    /\ model_calls = NoCalls

\* a flagged sub-problem names a file that is not there, an unflagged one a
\* file that is, and the only file on disk is one the scan does not take
C29_Witness ==
  /\ an_pc = "returned"
  /\ Flagged # {}
  /\ FlaggedRefs # {}
  /\ NothingFound
  /\ disk # {}
  /\ \E i \in 1..Len(sub_problems) : i \notin Flagged /\ References(sub_problems[i].DB_list) # <<>>
  /\ an_output.value.status = "error"

CompletionArtifacts == StepFiles \cup {AnswerName(st) : st \in Stems}

\* C32: no step of run_pipeline deletes, renames or overwrites a completion
\* artifact that is on disk: from one state to the next, and hence from the
\* start of a run to its end and across runs, every existing completion
\* artifact keeps its content.
C32_ArtifactsKept ==
  [][\A d \in Dirs : \A f \in CompletionArtifacts :
       Exists(fs[d], f) => fs'[d][f] = fs[d][f]]_vars

\* a second run has resumed problem 1 after the Brain output the first run
\* left, has invoked later steps and has left that output as it was
C32_Witness ==
  /\ run = 2
  /\ Exists(fs0[home[1]], Primary("Brain"))
  /\ ~Exists(fs0[home[1]], Primary("Answer"))
  /\ invoked[1] # <<>>
  /\ outcome[1] = "success"
  /\ ProblemDir(1)[Primary("Brain")] = fs0[home[1]][Primary("Brain")]

\* C33: when the construction of DataAnalystAgent fails, the placeholder
\* data_analysis_results.txt is written and the run goes on to the Blue step,
\* as it does when run_for_problem fails.
C33_ConstructorFailureTolerated ==
  \A p \in Problems :
    how[p]["DataAnalysis"] = "construct_fail" =>
      /\ failedAt[p] # "DataAnalysis"
      /\ Exists(ProblemDir(p), Primary("DataAnalysis"))

\* the positions of run_pipeline, in program order
Positions ==
  <<"idle", "queued", "start", "Brain", "Search", "DataAnalysis", "exec", "Blue", "Red",
    "BlueX", "RedReview", "Answer", "final", "done">>

Position(v) == CHOOSE i \in 1..Len(Positions) : Positions[i] = v

\* one step of the pipeline: a job that has not ended only moves forward, and
\* an agent step makes at most MAX_RETRIES requests
ForwardStep ==
  \A p \in Problems :
    /\ (pc[p] # "done" /\ pc'[p] # pc[p]) => Position(pc'[p]) > Position(pc[p])
    /\ requests'[p] > requests[p] =>
         /\ pc[p] \in Steps \cup {"exec"}
         /\ requests'[p] - requests[p] \in 1..MAX_RETRIES

C36_SelectedInsideProblemDir ==
  data_files # NotScanned =>
    \A f \in data_files : f.loc # <<>> /\ f.loc[1] = directory

\* C37: in the metadata load_file returns, whenever total_rows is known (not
\* the -1 sentinel), loaded_rows <= total_rows, and is_sampled is true exactly
\* when loaded_rows < total_rows.
C37_LoadedWithinTotal ==
  (metadata # NotLoaded /\ metadata.total_rows # -1) =>
    /\ metadata.loaded_rows <= metadata.total_rows
    /\ metadata.is_sampled <=> (metadata.loaded_rows < metadata.total_rows)

\* the second half of C37 alone
C37_SampledIffFewer ==
  (metadata # NotLoaded /\ metadata.total_rows # -1) =>
    (metadata.is_sampled <=> (metadata.loaded_rows < metadata.total_rows))

\* the first half of C37 for the files pd.read_csv loads
C37_DelimitedWithinTotal ==
  (metadata # NotLoaded /\ (format_type = "csv" \/ first_line = "delimited")) =>
    metadata.loaded_rows <= metadata.total_rows


====
